---- MODULE Spec2Model ----
(***************************************************************************)
(* Model of django.core.handlers.base.BaseHandler (src/core/handlers/      *)
(* base.py): load_middleware builds the five hook lists, get_response      *)
(* drives one request through request hooks, route resolution, view hooks, *)
(* the view, exception hooks, template-response hooks, render, failure     *)
(* translation, response hooks and the response fixes.                     *)
(*                                                                         *)
(* A middleware instance is identified by its position in                  *)
(* settings.MIDDLEWARE_CLASSES.  Collaborators (hooks, the resolver, the   *)
(* view, error handlers) are arbitrary code: every call picks its outcome  *)
(* from a small set (a returned value or a raised exception kind).         *)
(* `trace` records, in program order, every call get_response makes.       *)
(*                                                                         *)
(* Spec follows one request through a handler; SpecWorker follows a thread *)
(* that serves one request after another, with and without a urlconf       *)
(* attribute; SpecFix applies the response fixes to a range of responses.  *)
(* SpecCache, SpecCsrf, SpecConditionalGet and SpecSettings model the      *)
(* cache, CSRF and conditional-GET middleware (src/middleware) and the     *)
(* lazy settings object (src/conf/__init__.py), each in its own section.   *)
(***************************************************************************)
EXTENDS Integers, Sequences, FiniteSets, TLC

VARIABLES settings, _request_middleware, _view_middleware,
          _template_response_middleware, _response_middleware,
          _exception_middleware, request_middleware, lpc, li,
          pc, i, response, exc, result, trace,
          request, _urlconfs, resolver, cache, environ

vars == <<settings, _request_middleware, _view_middleware,
          _template_response_middleware, _response_middleware,
          _exception_middleware, request_middleware, lpc, li,
          pc, i, response, exc, result, trace,
          request, _urlconfs, resolver, cache, environ>>

\* What no handler action changes: the settings, the cache backend the cache
\* middleware reads and writes, and the process environment.
envvars == <<settings, cache, environ>>

mwvars == <<_request_middleware, _view_middleware,
            _template_response_middleware, _response_middleware,
            _exception_middleware, request_middleware, lpc, li>>

\* request: the attribute bag of the request being served (its urlconf
\* attribute, "absent" without one); _urlconfs: the urlconf set_urlconf last
\* made active for this thread; resolver: the urlconf get_response's local
\* resolver is built over.
urlvars == <<request, _urlconfs, resolver>>

reqvars == <<pc, i, response, exc, result, trace, urlvars>>

-----------------------------------------------------------------------------
(* Bounds *)

\* Longest settings.MIDDLEWARE_CLASSES explored.
MaxMW == 2

\* Longest settings.MIDDLEWARE_CLASSES explored for a worker that serves one
\* request after another.
MaxMWWorker == 1

\* The number of requests a worker of the cache middleware serves.
MaxCacheRequests == 2

\* The length of a CSRF key (CSRF_KEY_LENGTH, 32 in csrf.py:26), and the
\* number of get_token and rotate_token calls made for one request.
CSRF_KEY_LENGTH == 2
MaxTokenCalls == 1

\* The number of calls of settings.configure and of attribute reads made on
\* the settings object.
MaxSettingsCalls == 3

-----------------------------------------------------------------------------
(* Values *)

\* Python's None for a hook list that is not built yet.
NoList == <<-1>>

\* Python's None where a response is expected.
None == [src |-> "None", by |-> 0, status |-> 0, render |-> FALSE,
         rendered |-> FALSE, seen |-> <<>>, fixes |-> <<>>, closable |-> 0]

\* An HttpResponse made by `src` (hook of middleware `by`, 0 for the view
\* or an error handler); render: it has a callable render attribute;
\* seen: the response hooks it was handed to, in order; fixes: the response
\* fixes applied to it, in order; closable: how often the request was
\* appended to its _closable_objects.
Resp(src, by, status, render) ==
    [src |-> src, by |-> by, status |-> status, render |-> render,
     rendered |-> FALSE, seen |-> <<>>, fixes |-> <<>>, closable |-> 0]

\* Exception kinds the except clauses of get_response tell apart.
\* ValueError and AttributeError are ordinary Exception subclasses.
Classified == {"Http404", "PermissionDenied", "MultiPartParserError",
               "SuspiciousOperation"}
ExcKinds == Classified \cup {"Exception", "SystemExit"}

\* Middleware classes a project may configure: the hooks each defines.
\* "NotUsed" and "Broken" define every hook, but the __init__ of the first
\* raises MiddlewareNotUsed and that of the second some other exception;
\* "Missing" cannot be imported.
Classes == {"Full", "ReqResp", "NotUsed", "Broken", "Missing"}

HooksOf(cls) ==
    CASE cls \in {"Full", "NotUsed", "Broken"} ->
             {"process_request", "process_view",
              "process_template_response", "process_response",
              "process_exception"}
      [] cls = "ReqResp" -> {"process_request", "process_response"}
      [] OTHER -> {}

\* No request is being served.
NoRequest == [urlconf |-> "none"]

\* A request: urlconf is the value of its urlconf attribute, "absent" if
\* hasattr(request, 'urlconf') is false.
Request(urlconf) == [urlconf |-> urlconf]

SeqsUpTo(S, n) == UNION {[1..k -> S] : k \in 0..n}

\* One entry of `trace`: the call `ev` (of middleware `arg`, or with status
\* code `arg`), and `what` it returned or raised ("-" where that is of no
\* interest; for handle_uncaught_exception, the exception handed to it).
Ev(name, arg, what) == [ev |-> name, arg |-> arg, what |-> what]

\* How a returned value shows in `trace`.
Out(r) == IF r.src = "None" THEN "None" ELSE "Response"

-----------------------------------------------------------------------------
(* load_middleware *)

\* The handler after __init__, in a thread that has served no request,
\* under any settings with at most n middleware classes.
\* A cache backend holding nothing, and an environment without
\* DJANGO_SETTINGS_MODULE.
EmptyCache == <<>>
NoEnviron == [DJANGO_SETTINGS_MODULE |-> "None"]

Constructed(n) ==
    /\ cache = EmptyCache
    /\ environ = NoEnviron
    /\ settings \in [DEBUG : BOOLEAN,
                     DEBUG_PROPAGATE_EXCEPTIONS : BOOLEAN,
                     ROOT_URLCONF : {"None", "urls"},
                     MIDDLEWARE_CLASSES : SeqsUpTo(Classes, n)]
    /\ _request_middleware = NoList
    /\ _view_middleware = NoList
    /\ _template_response_middleware = NoList
    /\ _response_middleware = NoList
    /\ _exception_middleware = NoList
    /\ request_middleware = NoList
    /\ lpc = "init"
    /\ li = 0
    /\ pc = "idle"
    /\ i = 0
    /\ response = None
    /\ exc = "None"
    /\ result = [kind |-> "none", exc |-> "None"]
    /\ trace = <<>>
    /\ request = NoRequest
    /\ _urlconfs = "unset"
    /\ resolver = "unbound"

Init == Constructed(MaxMW)

\* Faulty variant of InsertFront: list.append(x) where insert(0, x) is meant.
InsertFront_Appends(list, x) == Append(list, x)

\* list.insert(0, x)
InsertFront(list, x) == <<x>> \o list

\* hasattr(mw_instance, hook)
HasHook(cls, hook) == hook \in HooksOf(cls)

\* Faulty variant of NotUsed: MiddlewareNotUsed is never seen and the
\* instance is registered like any other.
NotUsed_Never(cls) == FALSE

\* mw_class() raises MiddlewareNotUsed
NotUsed(cls) == cls = "NotUsed"

\* import_string(middleware_path) raises ImportError
ImportFails(cls) == cls = "Missing"

\* mw_class() raises an exception other than MiddlewareNotUsed
ConstructionFails(cls) == cls = "Broken"

\* Faulty variant of WhileLoading: the request hooks are collected in
\* self._request_middleware itself, like the other four lists.
WhileLoading_Direct(attr, local) == local

\* self._request_middleware while load_middleware runs: the request hooks
\* are collected in the local list and the attribute is left alone.
WhileLoading(attr, local) == attr

LoadMiddlewareInit ==
    /\ lpc = "init"
    /\ _view_middleware' = <<>>
    /\ _template_response_middleware' = <<>>
    /\ _response_middleware' = <<>>
    /\ _exception_middleware' = <<>>
    /\ request_middleware' = <<>>
    /\ _request_middleware' = WhileLoading(_request_middleware, <<>>)
    /\ li' = 1
    /\ lpc' = "loop"
    /\ UNCHANGED envvars
    /\ UNCHANGED reqvars

LoadMiddlewareClass ==
    /\ lpc = "loop"
    /\ li <= Len(settings.MIDDLEWARE_CLASSES)
    /\ LET cls == settings.MIDDLEWARE_CLASSES[li] IN
       IF ImportFails(cls) \/ (~NotUsed(cls) /\ ConstructionFails(cls))
       THEN /\ lpc' = "failed"
            /\ UNCHANGED <<_view_middleware, _template_response_middleware,
                           _response_middleware, _exception_middleware,
                           request_middleware, li, trace>>
       ELSE IF NotUsed(cls)
       THEN /\ trace' = IF settings.DEBUG
                        THEN Append(trace, Ev("logger.debug", li, "-"))
                        ELSE trace
            /\ li' = li + 1
            /\ UNCHANGED <<_view_middleware, _template_response_middleware,
                           _response_middleware, _exception_middleware,
                           request_middleware, lpc>>
       ELSE /\ request_middleware' =
                   IF HasHook(cls, "process_request")
                   THEN Append(request_middleware, li)
                   ELSE request_middleware
            /\ _view_middleware' =
                   IF HasHook(cls, "process_view")
                   THEN Append(_view_middleware, li)
                   ELSE _view_middleware
            /\ _template_response_middleware' =
                   IF HasHook(cls, "process_template_response")
                   THEN InsertFront(_template_response_middleware, li)
                   ELSE _template_response_middleware
            /\ _response_middleware' =
                   IF HasHook(cls, "process_response")
                   THEN InsertFront(_response_middleware, li)
                   ELSE _response_middleware
            /\ _exception_middleware' =
                   IF HasHook(cls, "process_exception")
                   THEN InsertFront(_exception_middleware, li)
                   ELSE _exception_middleware
            /\ li' = li + 1
            /\ UNCHANGED <<lpc, trace>>
    /\ _request_middleware' =
           WhileLoading(_request_middleware, request_middleware')
    /\ UNCHANGED <<envvars, pc, i, response, exc, result, urlvars>>

LoadMiddlewarePublish ==
    /\ lpc = "loop"
    /\ li > Len(settings.MIDDLEWARE_CLASSES)
    /\ _request_middleware' = request_middleware
    /\ lpc' = "done"
    /\ UNCHANGED <<envvars, _view_middleware, _template_response_middleware,
                   _response_middleware, _exception_middleware,
                   request_middleware, li>>
    /\ UNCHANGED reqvars

-----------------------------------------------------------------------------
(* get_response: the first try block *)

\* Faulty variant of Truthy: the `if response: break` of a hook loop is
\* lost and the loop runs on after a hook returned a response.
Truthy_Never(r) == FALSE

\* `if response:` -- an HttpResponse defines neither __bool__ nor __len__,
\* so every response object is true and only None is false.
Truthy(r) == r # None

\* Faulty variant of Deferred: no response is taken to support deferred
\* rendering.
Deferred_Never(r) == FALSE

\* hasattr(response, 'render') and callable(response.render)
Deferred(r) == r.render

\* What a request, view or exception hook may return: None or a response.
HookReturns(src, mw) == {None} \cup {Resp(src, mw, 200, b) : b \in BOOLEAN}

\* What the resolver may raise from resolve(): Resolver404, a
\* misconfiguration error, or a termination request.
ResolveRaises == {"Http404", "Exception", "SystemExit"}

\* `except Exception as e` around the view call: SystemExit is a
\* BaseException and is not caught there.
CaughtByExceptException(e) == e # "SystemExit"

\* Where the loop over self._response_middleware starts (line 247).
ResponsePhase ==
    IF Len(_response_middleware) = 0 THEN "apply_response_fixes"
    ELSE "process_response"

\* Faulty variant of AfterView: the `if response is None` of line 164 is
\* lost and whatever the view returned is handed on.
AfterView_NoNoneCheck(r) ==
    IF Deferred(r)
    THEN IF Len(_template_response_middleware) = 0 THEN "render"
         ELSE "process_template_response"
    ELSE ResponsePhase

\* Lines 164-184: the checks that follow the view call.
AfterView(r) ==
    IF r = None THEN "value_error"
    ELSE IF Deferred(r)
    THEN IF Len(_template_response_middleware) = 0 THEN "render"
         ELSE "process_template_response"
    ELSE ResponsePhase

\* Line 147: `if response is None` before the view call.
AfterViewMiddleware(r) ==
    IF r = None THEN "view" ELSE AfterView(r)

\* Faulty variant of AfterRequestMiddleware: the check of line 124 is lost
\* and the route is resolved whatever the request hooks returned.
AfterRequestMiddleware_AlwaysResolves(r) == "resolve"

\* Faulty variant of AfterRequestMiddleware: the response of a request hook
\* is returned at once, without the response hooks.
AfterRequestMiddleware_ReturnsAtOnce(r) ==
    IF r = None THEN "resolve" ELSE "finish"

\* Line 124: `if response is None` before route resolution.
AfterRequestMiddleware(r) ==
    IF r = None
    THEN "resolve"
    ELSE AfterViewMiddleware(r)

\* Continue at `target` inside the try block; "value_error" is the
\* ValueError raised at line 169 or 180.
Goto(target) ==
    IF target = "value_error"
    THEN pc' = "except" /\ exc' = "ValueError"
    ELSE pc' = target /\ exc' = "None"

\* An exception of kind e leaves the try block.
Raise(e) == pc' = "except" /\ exc' = e

\* Faulty variant of BoundAtSetup: the default is bound only in a thread
\* that has no urlconf active yet.
BoundAtSetup_KeepsActive(root, active) ==
    IF active = "unset" THEN root ELSE active

\* Lines 111-115: the urlconf get_response makes active and builds its
\* resolver over, given settings.ROOT_URLCONF and the urlconf active in the
\* thread when the request arrives.
BoundAtSetup(root, active) == root

\* get_response(request) up to the loop over the request hooks: lines
\* 111-117.
Setup(rq) ==
    /\ pc = "idle"
    /\ _request_middleware # NoList
    /\ request' = rq
    /\ _urlconfs' = BoundAtSetup(settings.ROOT_URLCONF, _urlconfs)
    /\ resolver' = BoundAtSetup(settings.ROOT_URLCONF, _urlconfs)
    /\ trace' = Append(trace, Ev("set_urlconf", 0, "-"))
    /\ response' = None
    /\ i' = 1
    /\ IF Len(_request_middleware) = 0
       THEN Goto(AfterRequestMiddleware(None))
       ELSE pc' = "process_request" /\ exc' = "None"
    /\ UNCHANGED <<envvars, result>>
    /\ UNCHANGED mwvars

\* A request without a urlconf attribute arrives.
GetResponseSetup == Setup(Request("absent"))

\* A request with a urlconf attribute arrives.
GetResponseSetupOverride == Setup(Request("override_urls"))

ProcessRequest ==
    /\ pc = "process_request"
    /\ LET mw == _request_middleware[i] IN
       \/ \E r \in HookReturns("process_request", mw) :
               /\ trace' = Append(trace, Ev("process_request", mw, Out(r)))
               /\ response' = r
               /\ IF ~Truthy(r) /\ i < Len(_request_middleware)
                  THEN i' = i + 1 /\ UNCHANGED <<pc, exc>>
                  ELSE i' = 1 /\ Goto(AfterRequestMiddleware(r))
       \/ \E e \in ExcKinds :
               /\ trace' = Append(trace, Ev("process_request", mw, e))
               /\ Raise(e)
               /\ UNCHANGED <<response, i>>
    /\ UNCHANGED <<envvars, result>>
    /\ UNCHANGED <<mwvars, urlvars>>

\* Faulty variant of Rebound: the urlconf attribute of the request is not
\* looked at.
Rebound_Never(rq, urlconf) == urlconf

\* Lines 126-131: the urlconf the resolver is built over when resolve is
\* called, for the request rq and the urlconf bound so far.
Rebound(rq, urlconf) ==
    IF rq.urlconf # "absent" THEN rq.urlconf ELSE urlconf

Resolve ==
    /\ pc = "resolve"
    /\ _urlconfs' = Rebound(request, _urlconfs)
    /\ resolver' = Rebound(request, resolver)
    /\ LET t == IF Rebound(request, resolver) # resolver
                THEN Append(trace, Ev("set_urlconf", 0, "-"))
                ELSE trace
       IN
       \/ /\ trace' = Append(t, Ev("resolve", 0, "Match"))
          /\ i' = 1
          /\ IF Len(_view_middleware) = 0
             THEN Goto(AfterViewMiddleware(response))
             ELSE pc' = "process_view" /\ exc' = "None"
       \/ \E e \in ResolveRaises :
            /\ trace' = Append(t, Ev("resolve", 0, e))
            /\ Raise(e)
            /\ UNCHANGED i
    /\ UNCHANGED <<envvars, response, result, request>>
    /\ UNCHANGED mwvars

ProcessView ==
    /\ pc = "process_view"
    /\ LET mw == _view_middleware[i] IN
       \/ \E r \in HookReturns("process_view", mw) :
               /\ trace' = Append(trace, Ev("process_view", mw, Out(r)))
               /\ response' = r
               /\ IF ~Truthy(r) /\ i < Len(_view_middleware)
                  THEN i' = i + 1 /\ UNCHANGED <<pc, exc>>
                  ELSE i' = 1 /\ Goto(AfterViewMiddleware(r))
       \/ \E e \in ExcKinds :
               /\ trace' = Append(trace, Ev("process_view", mw, e))
               /\ Raise(e)
               /\ UNCHANGED <<response, i>>
    /\ UNCHANGED <<envvars, result>>
    /\ UNCHANGED <<mwvars, urlvars>>

\* The trace after a step that continues at `target`: the ValueError of
\* line 169 or 180 is raised by get_response itself.
Continued(tr, target) ==
    IF target = "value_error"
    THEN Append(tr, Ev("raise", 0, "ValueError"))
    ELSE tr

CallView ==
    /\ pc = "view"
    /\ \/ \E r \in HookReturns("view", 0) :
            /\ trace' = Continued(Append(trace, Ev("view", 0, Out(r))),
                                  AfterView(r))
            /\ response' = r
            /\ i' = 1
            /\ Goto(AfterView(r))
       \/ \E e \in ExcKinds :
            /\ trace' = Append(trace, Ev("view", 0, e))
            /\ exc' = e
            /\ i' = 1
            /\ pc' = IF CaughtByExceptException(e)
                        /\ Len(_exception_middleware) > 0
                     THEN "process_exception"
                     ELSE "except"
            /\ UNCHANGED response
    /\ UNCHANGED <<envvars, result>>
    /\ UNCHANGED <<mwvars, urlvars>>

\* Faulty variant of Reraised: a new generic exception is raised in place
\* of the one the view raised.
Reraised_AsNew(e) == "Exception"

\* Line 160: the bare `raise` re-raises the exception the view raised.
Reraised(e) == e

ProcessException ==
    /\ pc = "process_exception"
    /\ LET mw == _exception_middleware[i] IN
       \/ \E r \in HookReturns("process_exception", mw) :
               /\ trace' = Append(trace, Ev("process_exception", mw, Out(r)))
               /\ response' = r
               /\ IF Truthy(r)
                  THEN i' = 1 /\ Goto(AfterView(r))
                  ELSE IF i < Len(_exception_middleware)
                  THEN i' = i + 1 /\ UNCHANGED <<pc, exc>>
                  ELSE IF r = None
                  THEN i' = i /\ Raise(Reraised(exc))
                  ELSE i' = 1 /\ Goto(AfterView(r))
       \/ \E e \in ExcKinds :
               /\ trace' = Append(trace, Ev("process_exception", mw, e))
               /\ Raise(e)
               /\ UNCHANGED <<response, i>>
    /\ UNCHANGED <<envvars, result>>
    /\ UNCHANGED <<mwvars, urlvars>>

\* What a template-response hook may return: None, the response it was
\* given, or an object of its own that has no render method.
TemplateHookReturns(mw, r) ==
    {None, r, Resp("process_template_response", mw, 200, FALSE)}

\* What a template-response hook or render() may raise: one exception with
\* an except clause of its own, one ordinary exception, and SystemExit.
RenderRaises == {"Http404", "Exception", "SystemExit"}

ProcessTemplateResponse ==
    /\ pc = "process_template_response"
    /\ LET mw == _template_response_middleware[i] IN
       \/ \E r \in TemplateHookReturns(mw, response) :
               /\ trace' = Continued(
                      Append(trace,
                             Ev("process_template_response", mw, Out(r))),
                      IF r = None THEN "value_error" ELSE "render")
               /\ response' = r
               /\ IF r = None
                  THEN i' = i /\ Goto("value_error")
                  ELSE IF i < Len(_template_response_middleware)
                  THEN i' = i + 1 /\ UNCHANGED <<pc, exc>>
                  ELSE i' = 1 /\ Goto("render")
       \/ \E e \in RenderRaises :
               /\ trace' = Append(trace,
                                  Ev("process_template_response", mw, e))
               /\ Raise(e)
               /\ UNCHANGED <<response, i>>
    /\ UNCHANGED <<envvars, result>>
    /\ UNCHANGED <<mwvars, urlvars>>

\* Line 184: response = response.render(); an object without render makes
\* the attribute access fail (AttributeError, an ordinary Exception).
Render ==
    /\ pc = "render"
    /\ IF ~response.render
       THEN /\ trace' = Append(trace, Ev("raise", 0, "AttributeError"))
            /\ Raise("AttributeError")
            /\ UNCHANGED response
       ELSE \/ /\ trace' = Append(trace, Ev("render", 0, "Response"))
               /\ response' = [response EXCEPT !.rendered = TRUE]
               /\ Goto(ResponsePhase)
            \/ \E e \in RenderRaises :
                 /\ trace' = Append(trace, Ev("render", 0, e))
                 /\ Raise(e)
                 /\ UNCHANGED response
    /\ i' = 1
    /\ UNCHANGED <<envvars, result>>
    /\ UNCHANGED <<mwvars, urlvars>>

-----------------------------------------------------------------------------
(* get_response: failure translation *)

\* What an error handler may raise; the bare except of
\* get_exception_response treats every kind alike.
HandlerRaises == {"Exception", "SystemExit"}

\* What the 500 handler (or its lookup) may raise: lines 297-298 stand in
\* no try block, so whatever is raised there leaves get_response.
Handler500Raises == {"Exception"}

\* debug.technical_404_response / debug.technical_500_response
Technical(name, status) == Resp(name, 0, status, FALSE)

\* The response an error handler view returns for `code`.
HandlerReturns(code) == {Resp("error_handler", 0, code, b) : b \in BOOLEAN}

\* resolver.urlconf_module is None
NoUrlconfModule == resolver = "None"

\* Faulty variant of HandleUncaughtDecision: the 500 handler is never used.
HandleUncaughtDecision_NoErrorHandler(propagate, debugOn, noUrlconf) ==
    IF propagate THEN "raise"
    ELSE IF debugOn THEN "technical_500_response"
    ELSE "reraise"

\* Faulty variant of HandleUncaughtDecision: debug mode is looked at before
\* the propagate-exceptions flag.
HandleUncaughtDecision_DebugFirst(propagate, debugOn, noUrlconf) ==
    IF debugOn THEN "technical_500_response"
    ELSE IF propagate THEN "raise"
    ELSE IF noUrlconf THEN "reraise"
    ELSE "resolve_error_handler"

\* handle_uncaught_exception's decision chain (lines 277-298).
HandleUncaughtDecision(propagate, debugOn, noUrlconf) ==
    IF propagate THEN "raise"
    ELSE IF debugOn THEN "technical_500_response"
    ELSE IF noUrlconf THEN "reraise"
    ELSE "resolve_error_handler"

\* handle_uncaught_exception(request, resolver, exc_info) called with the
\* exception e after the calls in tr; a returned response continues at okpc,
\* a raised exception leaves get_response.
HandleUncaught(e, tr, okpc) ==
    LET d == HandleUncaughtDecision(settings.DEBUG_PROPAGATE_EXCEPTIONS,
                                    settings.DEBUG, NoUrlconfModule)
        t0 == Append(tr, Ev("handle_uncaught_exception", 0, e))
        t1 == Append(t0, Ev("logger.error", 500, "-"))
    IN
    CASE d = "raise" ->
           /\ trace' = t0
           /\ result' = [kind |-> "raised", exc |-> e]
           /\ pc' = "done"
           /\ UNCHANGED response
      [] d = "technical_500_response" ->
           /\ trace' = Append(t1, Ev("technical_500_response", 500,
                                     "Response"))
           /\ response' = Technical("technical_500_response", 500)
           /\ pc' = okpc
           /\ UNCHANGED result
      [] d = "reraise" ->
           /\ trace' = t1
           /\ result' = [kind |-> "raised", exc |-> e]
           /\ pc' = "done"
           /\ UNCHANGED response
      [] OTHER ->
           \/ \E r \in HandlerReturns(500) :
                /\ trace' = Append(Append(t1,
                                Ev("resolve_error_handler", 500, "Handler")),
                                Ev("error_handler", 500, "Response"))
                /\ response' = r
                /\ pc' = okpc
                /\ UNCHANGED result
           \/ \E k \in Handler500Raises :
                /\ trace' = Append(Append(t1,
                                Ev("resolve_error_handler", 500, "Handler")),
                                Ev("error_handler", 500, k))
                /\ result' = [kind |-> "raised", exc |-> k]
                /\ pc' = "done"
                /\ UNCHANGED response

\* Faulty variant of GetExceptionResponse: the error handler's response is
\* rendered like a view's (as if the call stood inside the try block).
GetExceptionResponse_Rendered(code, tr) ==
    LET t1 == Append(tr, Ev("resolve_error_handler", code, "Handler")) IN
    \/ HandleUncaught("Exception",
                      Append(Append(tr, Ev("resolve_error_handler", code,
                                           "Exception")),
                             Ev("got_request_exception", 0, "-")),
                      ResponsePhase)
    \/ \E r \in HandlerReturns(code) :
         /\ trace' = Append(t1, Ev("error_handler", code, "Response"))
         /\ response' = [r EXCEPT !.rendered = r.render]
         /\ pc' = ResponsePhase
         /\ UNCHANGED result
    \/ \E k \in HandlerRaises :
         HandleUncaught(k,
                        Append(Append(t1, Ev("error_handler", code, k)),
                               Ev("got_request_exception", 0, "-")),
                        ResponsePhase)

\* Faulty variant of GetExceptionResponse: the failure of the error handler
\* goes to handle_uncaught_exception without the got_request_exception send.
GetExceptionResponse_NoSignal(code, tr) ==
    LET t1 == Append(tr, Ev("resolve_error_handler", code, "Handler")) IN
    \/ HandleUncaught("Exception",
                      Append(tr, Ev("resolve_error_handler", code,
                                    "Exception")),
                      ResponsePhase)
    \/ \E r \in HandlerReturns(code) :
         /\ trace' = Append(t1, Ev("error_handler", code, "Response"))
         /\ response' = r
         /\ pc' = ResponsePhase
         /\ UNCHANGED result
    \/ \E k \in HandlerRaises :
         HandleUncaught(k, Append(t1, Ev("error_handler", code, k)),
                        ResponsePhase)

\* get_exception_response(request, resolver, status_code), lines 92-101.
GetExceptionResponse(code, tr) ==
    LET t1 == Append(tr, Ev("resolve_error_handler", code, "Handler")) IN
    \/ HandleUncaught("Exception",
                      Append(Append(tr, Ev("resolve_error_handler", code,
                                           "Exception")),
                             Ev("got_request_exception", 0, "-")),
                      ResponsePhase)
    \/ \E r \in HandlerReturns(code) :
         /\ trace' = Append(t1, Ev("error_handler", code, "Response"))
         /\ response' = r
         /\ pc' = ResponsePhase
         /\ UNCHANGED result
    \/ \E k \in HandlerRaises :
         HandleUncaught(k,
                        Append(Append(t1, Ev("error_handler", code, k)),
                               Ev("got_request_exception", 0, "-")),
                        ResponsePhase)

\* Which except clause of get_response (lines 187-242) takes exception e.
ExceptClause(e) ==
    CASE e = "Http404" -> "Http404"
      [] e = "PermissionDenied" -> "PermissionDenied"
      [] e = "MultiPartParserError" -> "MultiPartParserError"
      [] e = "SuspiciousOperation" -> "SuspiciousOperation"
      [] e = "SystemExit" -> "SystemExit"
      [] OTHER -> "bare"

\* Faulty variants of ClauseHasDebugPage: the Http404 clause without its
\* debug branch, the SuspiciousOperation clause without its debug branch,
\* and a debug branch in every clause.
ClauseHasDebugPage_NotHttp404(clause) == clause = "SuspiciousOperation"

ClauseHasDebugPage_NotSuspicious(clause) == clause = "Http404"

ClauseHasDebugPage_Everywhere(clause) == TRUE

\* Does the clause have an `if settings.DEBUG:` branch answering with a
\* debug page?
ClauseHasDebugPage(clause) ==
    clause \in {"Http404", "SuspiciousOperation"}

\* The status code the clause passes to get_exception_response.
ClauseStatus(clause) ==
    CASE clause = "Http404" -> 404
      [] clause = "PermissionDenied" -> 403
      [] OTHER -> 400

Translate ==
    /\ pc = "except"
    /\ LET clause == ExceptClause(exc) IN
       CASE clause = "Http404" ->
              LET t == Append(trace, Ev("logger.warning", 404, "-")) IN
              IF settings.DEBUG /\ ClauseHasDebugPage(clause)
              THEN /\ trace' = Append(t, Ev("technical_404_response", 404,
                                            "Response"))
                   /\ response' = Technical("technical_404_response", 404)
                   /\ pc' = ResponsePhase
                   /\ UNCHANGED result
              ELSE GetExceptionResponse(ClauseStatus(clause), t)
         [] clause \in {"PermissionDenied", "MultiPartParserError"} ->
              LET t == Append(trace, Ev("logger.warning",
                                        ClauseStatus(clause), "-")) IN
              IF settings.DEBUG /\ ClauseHasDebugPage(clause)
              THEN /\ trace' = Append(t, Ev("technical_500_response",
                                            ClauseStatus(clause), "Response"))
                   /\ response' = Technical("technical_500_response",
                                            ClauseStatus(clause))
                   /\ pc' = ResponsePhase
                   /\ UNCHANGED result
              ELSE GetExceptionResponse(ClauseStatus(clause), t)
         [] clause = "SuspiciousOperation" ->
              LET t == Append(trace, Ev("security_logger.error", 400, "-")) IN
              IF settings.DEBUG /\ ClauseHasDebugPage(clause)
              THEN /\ trace' = Append(t, Ev("technical_500_response", 400,
                                            "Response"))
                   /\ response' = Technical("technical_500_response", 400)
                   /\ result' = [kind |-> "returned", exc |-> "None"]
                   /\ pc' = "done"
              ELSE GetExceptionResponse(ClauseStatus(clause), t)
         [] clause = "SystemExit" ->
              /\ result' = [kind |-> "raised", exc |-> exc]
              /\ pc' = "done"
              /\ UNCHANGED <<response, trace>>
         [] OTHER ->
              HandleUncaught(exc,
                             Append(trace, Ev("got_request_exception", 0,
                                              "-")),
                             ResponsePhase)
    /\ i' = 1
    /\ UNCHANGED <<envvars, exc>>
    /\ UNCHANGED <<mwvars, urlvars>>

-----------------------------------------------------------------------------
(* get_response: response hooks, response fixes, return *)

\* What a response hook may return: None, or the response it was given
\* (possibly after modifying it in place).
ResponseHookReturns(mw, r) == {None, r}

\* What a response hook may raise; the bare except at line 257 treats
\* every kind alike.
ResponseHookRaises == {"Exception", "SystemExit"}

\* What a response fix may raise: fix_location_header builds an absolute
\* URI, which raises DisallowedHost (a SuspiciousOperation) for a bad Host.
FixRaises == {"SuspiciousOperation"}

\* Faulty variant of ReturnedNone: the check of line 250 is lost.
ReturnedNone_Unchecked(r) == FALSE

\* Line 250: `if response is None` after a response hook.
ReturnedNone(r) == r = None

ProcessResponse ==
    /\ pc = "process_response"
    /\ LET mw == _response_middleware[i] IN
       \/ \E r \in ResponseHookReturns(mw, response) :
            IF ReturnedNone(r)
            THEN /\ HandleUncaught("ValueError",
                      Append(Append(Append(trace,
                          Ev("process_response", mw, "None")),
                          Ev("raise", 0, "ValueError")),
                          Ev("got_request_exception", 0, "-")),
                      "finish")
                 /\ i' = 1
            ELSE /\ trace' = Append(trace,
                                    Ev("process_response", mw, Out(r)))
                 /\ response' = [r EXCEPT !.seen = Append(@, mw)]
                 /\ IF i < Len(_response_middleware)
                    THEN i' = i + 1 /\ UNCHANGED pc
                    ELSE i' = 1 /\ pc' = "apply_response_fixes"
                 /\ UNCHANGED result
       \/ \E e \in ResponseHookRaises :
            /\ HandleUncaught(e,
                   Append(Append(trace, Ev("process_response", mw, e)),
                          Ev("got_request_exception", 0, "-")),
                   "finish")
            /\ i' = 1
    /\ UNCHANGED <<envvars, exc>>
    /\ UNCHANGED <<mwvars, urlvars>>

\* BaseHandler.response_fixes (lines 26-29).
response_fixes == <<"fix_location_header", "conditional_content_removal">>

\* Line 256 and apply_response_fixes (lines 300-308).
ApplyResponseFixes ==
    /\ pc = "apply_response_fixes"
    /\ \/ /\ trace' = Append(trace, Ev("apply_response_fixes", 0, "Response"))
          /\ response' = [response EXCEPT !.fixes = @ \o response_fixes]
          /\ pc' = "finish"
          /\ UNCHANGED result
       \/ \E e \in FixRaises :
            HandleUncaught(e,
                Append(Append(trace, Ev("apply_response_fixes", 0, e)),
                       Ev("got_request_exception", 0, "-")),
                "finish")
    /\ UNCHANGED <<envvars, exc, i>>
    /\ UNCHANGED <<mwvars, urlvars>>

\* Lines 262-264: response._closable_objects.append(request); return.
Finish ==
    /\ pc = "finish"
    /\ response' = [response EXCEPT !.closable = @ + 1]
    /\ result' = [kind |-> "returned", exc |-> "None"]
    /\ pc' = "done"
    /\ UNCHANGED <<envvars, exc, i, trace>>
    /\ UNCHANGED <<mwvars, urlvars>>

-----------------------------------------------------------------------------

Next ==
    \/ LoadMiddlewareInit
    \/ LoadMiddlewareClass
    \/ LoadMiddlewarePublish
    \/ GetResponseSetup
    \/ ProcessRequest
    \/ Resolve
    \/ ProcessView
    \/ CallView
    \/ ProcessException
    \/ ProcessTemplateResponse
    \/ Render
    \/ Translate
    \/ ProcessResponse
    \/ ApplyResponseFixes
    \/ Finish

Spec == Init /\ [][Next]_vars

-----------------------------------------------------------------------------
(* A worker thread serving one request after another *)

\* get_response has returned or raised and the thread takes the next
\* request.  The locals of the finished call are gone; the thread-local
\* urlconf stays as that call left it.  The trace starts again, keeping
\* what load_middleware logged and noting the urlconf the finished request
\* left active.
NextRequest ==
    /\ pc = "done"
    /\ pc' = "idle"
    /\ i' = 0
    /\ response' = None
    /\ exc' = "None"
    /\ result' = [kind |-> "none", exc |-> "None"]
    /\ request' = NoRequest
    /\ resolver' = "unbound"
    /\ trace' = Append(SelectSeq(trace, LAMBDA e : e.ev = "logger.debug"),
                       Ev("served", 0, _urlconfs))
    /\ UNCHANGED <<envvars, _urlconfs>>
    /\ UNCHANGED mwvars

InitWorker == Constructed(MaxMWWorker)

NextWorker ==
    \/ Next
    \/ GetResponseSetupOverride
    \/ NextRequest

SpecWorker == InitWorker /\ [][NextWorker]_vars

-----------------------------------------------------------------------------
(* Response post-processing: what the response fixes do to a response *)

\* The two fixes are django.http.fix_location_header and
\* django.http.conditional_content_removal.  Here `response` is the part of
\* a response they read and write (status code, Location and Content-Length
\* headers, content), `request` the method and host of the request, and
\* `trace` the response as it was before and after each application.

\* A Location header value, as the parts of the URL it holds.
RelativeLocation == <<"/next/">>
AbsoluteLocation == <<"http:", "//testserver", "/next/">>
NoHeader == <<>>

\* request.build_absolute_uri(location): a location that names no scheme is
\* joined to the scheme and host of the request.
build_absolute_uri(rq, location) ==
    IF location[1] = "http:" THEN location
    ELSE <<"http:", "//" \o rq.host>> \o location

\* Faulty variant of fix_location_header: the Location is joined to the
\* host whether or not it is absolute already.
fix_location_header_AlwaysJoins(rq, r) ==
    IF r.Location # NoHeader /\ rq.host # ""
    THEN [r EXCEPT !.Location = <<"http:", "//" \o rq.host>> \o @]
    ELSE r

\* Makes the address of a redirect absolute, when the request names a host.
fix_location_header(rq, r) ==
    IF r.Location # NoHeader /\ rq.host # ""
    THEN [r EXCEPT !.Location = build_absolute_uri(rq, @)]
    ELSE r

\* Status codes whose responses must not have a body.
ForbidsBody(status) ==
    (100 <= status /\ status < 200) \/ status \in {204, 304}

\* Strips the body of a response whose status code forbids one, and of the
\* response to a HEAD request.
conditional_content_removal(rq, r) ==
    LET r1 == IF ForbidsBody(r.status)
              THEN [r EXCEPT !.content = "", !.ContentLength = "0"]
              ELSE r
    IN IF rq.method = "HEAD" THEN [r1 EXCEPT !.content = ""] ELSE r1

\* func(request, response) for the func named `fix`.
Fix(fix, rq, r) ==
    CASE fix = "fix_location_header" -> fix_location_header(rq, r)
      [] fix = "conditional_content_removal" ->
             conditional_content_removal(rq, r)

\* The loop of apply_response_fixes from the k-th fix on.
RECURSIVE ApplyFrom(_, _, _)
ApplyFrom(k, rq, r) ==
    IF k > Len(response_fixes) THEN r
    ELSE ApplyFrom(k + 1, rq, Fix(response_fixes[k], rq, r))

\* apply_response_fixes(request, response), lines 300-308.
apply_response_fixes(rq, r) == ApplyFrom(1, rq, r)

InitFix ==
    /\ cache = EmptyCache
    /\ environ = NoEnviron
    /\ settings = [DEBUG |-> FALSE, DEBUG_PROPAGATE_EXCEPTIONS |-> FALSE,
                   ROOT_URLCONF |-> "urls", MIDDLEWARE_CLASSES |-> <<>>]
    /\ _request_middleware = <<>>
    /\ _view_middleware = <<>>
    /\ _template_response_middleware = <<>>
    /\ _response_middleware = <<>>
    /\ _exception_middleware = <<>>
    /\ request_middleware = <<>>
    /\ lpc = "done"
    /\ li = 1
    /\ pc = "unfixed"
    /\ i = 1
    /\ exc = "None"
    /\ result = [kind |-> "none", exc |-> "None"]
    /\ _urlconfs = "urls"
    /\ resolver = "urls"
    /\ request \in [method : {"GET", "HEAD"}, host : {"", "testserver"}]
    /\ response \in [status : {100, 200, 204, 302, 304},
                      Location : {NoHeader, RelativeLocation,
                                  AbsoluteLocation},
                      content : {"", "body"},
                      ContentLength : {"absent", "0", "4"}]
    /\ trace = <<response>>

\* Line 256: the response fixes are applied to the response.
PostProcess ==
    /\ pc = "unfixed"
    /\ response' = apply_response_fixes(request, response)
    /\ trace' = Append(trace, response')
    /\ pc' = "fixed"
    /\ UNCHANGED <<envvars, i, exc, result, urlvars>>
    /\ UNCHANGED mwvars

\* The response fixes are applied to a response that has been through them.
PostProcessAgain ==
    /\ pc = "fixed"
    /\ response' = apply_response_fixes(request, response)
    /\ trace' = Append(trace, response')
    /\ pc' = "refixed"
    /\ UNCHANGED <<envvars, i, exc, result, urlvars>>
    /\ UNCHANGED mwvars

NextFix ==
    \/ PostProcess
    \/ PostProcessAgain

SpecFix == InitFix /\ [][NextFix]_vars

-----------------------------------------------------------------------------
(* django.middleware.cache (src/middleware/cache.py)                        *)
(*                                                                          *)
(* One worker serves requests for one URL through FetchFromCacheMiddleware  *)
(* and UpdateCacheMiddleware, as handler middleware or as the cache         *)
(* decorator built from CacheMiddleware.  `cache` maps the keys in use to   *)
(* what is stored under them; request, response and trace are those of the  *)
(* request being served.                                                    *)

\* CACHE_MIDDLEWARE_SECONDS, as configured.
CacheSeconds == {0, 600}

\* The max-age directive of a response's Cache-Control header: <<>> without
\* one, <<n>> for max-age=n.
MaxAges == {<<>>, <<0>>, <<60>>}

\* What the view answers: a plain, a streaming or a template response.
ViewResponses ==
    {r \in [status : {200, 404}, streaming : BOOLEAN, render : BOOLEAN,
            rendered : {FALSE}, callbacks : {<<>>}, max_age : MaxAges,
            cookies : BOOLEAN, vary_cookie : BOOLEAN, patched : {<<>>}] :
        ~(r.streaming /\ r.render)}

CacheMethods == {"GET", "HEAD", "POST"}

\* cache.get(key, None) and cache.set(key, value, timeout)
NoEntry == [timeout |-> 0]
CacheGet(c, key) == IF key \in DOMAIN c THEN c[key] ELSE NoEntry

CacheSet(c, key, value, timeout) ==
    [k \in DOMAIN c \cup {key} |->
        IF k = key THEN [value |-> value, timeout |-> timeout] ELSE c[k]]

\* django.utils.cache.get_cache_key: None until the header list of the URL
\* has been learned, then the key of the page for `method`.
NoKey == "None"
get_cache_key(c, method) ==
    IF "headers" \in DOMAIN c THEN method ELSE NoKey

\* django.utils.cache.learn_cache_key: stores the header list of the URL and
\* returns the key of the page for the request's method.
learn_cache_key(rq, c, timeout) ==
    [key |-> rq.method, cache |-> CacheSet(c, "headers", "-", timeout)]

\* django.utils.cache.get_max_age
get_max_age(r) == r.max_age

\* django.utils.cache.patch_response_headers: ETag, Last-Modified, Expires
\* and Cache-Control are set for `timeout` seconds.
patch_response_headers(r, timeout) == [r EXCEPT !.patched = <<timeout>>]

\* django.utils.cache.has_vary_header(response, 'Cookie')
has_vary_header(r) == r.vary_cookie

\* What is pickled into the cache: the response without its callbacks.
Stored(r) == [r EXCEPT !.callbacks = <<>>]

\* Faulty variant of add_post_render_callback: the callback is appended to
\* a rendered response as well.
add_post_render_callback_AlwaysAppends(r, cb, c) ==
    [response |-> [r EXCEPT !.callbacks = Append(@, cb)], cache |-> c]

\* SimpleTemplateResponse.add_post_render_callback: a rendered response
\* runs the callback at once, any other one keeps it for render().
add_post_render_callback(r, cb, c) ==
    IF r.rendered
    THEN [response |-> r,
          cache |-> CacheSet(c, cb.key, Stored(r), cb.timeout)]
    ELSE [response |-> [r EXCEPT !.callbacks = Append(@, cb)], cache |-> c]

\* Faulty variant of _should_update_cache: every response is for the cache.
_should_update_cache_Always(rq) == TRUE

\* Lines 70-72; _cache_update_cache is "absent" on a request no fetch
\* middleware has seen.
_should_update_cache(rq) == rq._cache_update_cache = "True"

\* Faulty variant of TimeoutFor: max-age is ignored.
TimeoutFor_SettingOnly(r, seconds) == <<seconds>>

\* Lines 102-104: the max-age of the response, else the configured seconds.
TimeoutFor(r, seconds) ==
    IF get_max_age(r) = <<>> THEN <<seconds>> ELSE get_max_age(r)

\* Faulty variant of SetsCookieOnCookielessRequest: the `not` before
\* request.COOKIES is lost.
SetsCookieOnCookielessRequest_NotLost(rq, r) ==
    rq.COOKIES /\ r.cookies /\ has_vary_header(r)

\* Lines 92-94: `not request.COOKIES and response.cookies and
\* has_vary_header(response, 'Cookie')`.
SetsCookieOnCookielessRequest(rq, r) ==
    ~rq.COOKIES /\ r.cookies /\ has_vary_header(r)

\* Lines 74-122, UpdateCacheMiddleware.process_response: the response it
\* returns and the cache it leaves.
UpdateCache_process_response(rq, r, c, seconds) ==
    LET as_is == [response |-> r, cache |-> c]
        timeout == TimeoutFor(r, seconds)[1]
        patched == patch_response_headers(r, timeout)
        learned == learn_cache_key(rq, c, timeout)
    IN  IF ~_should_update_cache(rq) THEN as_is
        ELSE IF r.streaming \/ r.status # 200 THEN as_is
        ELSE IF SetsCookieOnCookielessRequest(rq, r) THEN as_is
        ELSE IF get_max_age(r) # <<>> /\ timeout = 0 THEN as_is
        ELSE IF timeout = 0 THEN [response |-> patched, cache |-> c]
        ELSE IF Deferred(patched)
             THEN add_post_render_callback(
                      patched, [key |-> learned.key, timeout |-> timeout],
                      learned.cache)
             ELSE [response |-> patched,
                   cache |-> CacheSet(learned.cache, learned.key,
                                      Stored(patched), timeout)]

\* Faulty variant of FetchMarksHit: a hit leaves the request marked for
\* update.
FetchMarksHit_ForUpdate == "True"

\* Line 167: what _cache_update_cache is set to on a hit.
FetchMarksHit == "False"

\* Lines 139-168, FetchFromCacheMiddleware.process_request: the response it
\* returns (None on a miss) and the mark it leaves on the request.
FetchFromCache_process_request(rq, c) ==
    LET get_key == get_cache_key(c, "GET")
        got == CacheGet(c, get_key)
        head_key == get_cache_key(c, "HEAD")
        head == IF got = NoEntry /\ rq.method = "HEAD"
                THEN CacheGet(c, head_key) ELSE got
    IN  IF rq.method \notin {"GET", "HEAD"}
        THEN [response |-> NoEntry, mark |-> "False", from |-> "-"]
        ELSE IF get_key = NoKey
        THEN [response |-> NoEntry, mark |-> "True", from |-> "-"]
        ELSE IF head = NoEntry
        THEN [response |-> NoEntry, mark |-> "True", from |-> "-"]
        ELSE [response |-> head, mark |-> FetchMarksHit,
              from |-> IF got = NoEntry THEN head_key ELSE get_key]

\* A handler without middleware of its own, idle.
NoHandler ==
    /\ _request_middleware = <<>>
    /\ _view_middleware = <<>>
    /\ _template_response_middleware = <<>>
    /\ _response_middleware = <<>>
    /\ _exception_middleware = <<>>
    /\ request_middleware = <<>>
    /\ lpc = "done"
    /\ li = 1
    /\ i = 1
    /\ exc = "None"
    /\ result = [kind |-> "none", exc |-> "None"]
    /\ _urlconfs = "urls"
    /\ resolver = "urls"

handlervars == <<mwvars, i, exc, result, _urlconfs, resolver>>

NoCacheRequest ==
    [method |-> "GET", COOKIES |-> FALSE, _cache_update_cache |-> "absent"]

NoCacheResponse ==
    [status |-> 0, streaming |-> FALSE, render |-> FALSE,
     rendered |-> FALSE, callbacks |-> <<>>, max_age |-> <<>>,
     cookies |-> FALSE, vary_cookie |-> FALSE, patched |-> <<>>]

\* Lines 64-68: UpdateCacheMiddleware.__init__ reads the settings; the cache
\* backend starts empty.
InitCache ==
    /\ NoHandler
    /\ settings \in [CACHE_MIDDLEWARE_SECONDS : CacheSeconds]
    /\ cache = EmptyCache
    /\ environ = NoEnviron
    /\ request = NoCacheRequest
    /\ response = NoCacheResponse
    /\ trace = <<>>
    /\ pc = "idle"

\* A request arrives; no middleware has marked it.  i numbers the requests
\* of the worker.
CacheRequest ==
    /\ pc = "idle"
    /\ i <= MaxCacheRequests
    /\ i' = i + 1
    /\ \E m \in CacheMethods, ck \in BOOLEAN :
          request' = [method |-> m, COOKIES |-> ck,
                      _cache_update_cache |-> "absent"]
    /\ response' = NoCacheResponse
    /\ trace' = <<>>
    /\ pc' = "process_request"
    /\ UNCHANGED <<envvars, mwvars, exc, result, _urlconfs, resolver>>

\* FetchFromCacheMiddleware.process_request as a request hook: a response
\* short-circuits to the response hooks (base.py:119-122).
FetchProcessRequest ==
    /\ pc = "process_request"
    /\ LET f == FetchFromCache_process_request(request, cache)
       IN  /\ request' = [request EXCEPT !._cache_update_cache = f.mark]
           /\ IF f.response = NoEntry
              THEN /\ trace' = Append(trace, Ev("process_request", 0, "None"))
                   /\ pc' = "view"
                   /\ UNCHANGED response
              ELSE /\ trace' = Append(trace,
                                      Ev("process_request", f.from,
                                         "Response"))
                   /\ response' = f.response.value
                   /\ pc' = "process_response"
    /\ UNCHANGED <<envvars, handlervars>>

\* UpdateCacheMiddleware installed without FetchFromCacheMiddleware: the
\* request reaches the view unmarked.
NoFetchMiddleware ==
    /\ pc = "process_request"
    /\ trace' = Append(trace, Ev("no_fetch", 0, "-"))
    /\ pc' = "view"
    /\ UNCHANGED <<envvars, handlervars, request, response>>

\* The view answers.  A template response is rendered by the handler before
\* the response hooks (base.py:184), or after process_response when the
\* middleware runs as the cache decorator around the view.
CacheView ==
    /\ pc = "view"
    /\ \E r \in ViewResponses :
          /\ response' = r
          /\ pc' \in IF Deferred(r) THEN {"render", "process_response"}
                     ELSE {"process_response"}
    /\ trace' = Append(trace, Ev("view", 0, "Response"))
    /\ UNCHANGED <<envvars, handlervars, request>>

RECURSIVE RunCallbacks(_, _, _)
\* SimpleTemplateResponse.render: the post-render callbacks run in order on
\* the rendered response.
RunCallbacks(r, cbs, c) ==
    IF cbs = <<>> THEN c
    ELSE RunCallbacks(r, Tail(cbs),
                      CacheSet(c, Head(cbs).key, Stored(r),
                               Head(cbs).timeout))

\* response.render()
CacheRender ==
    /\ pc \in {"render", "render_late"}
    /\ response' = [response EXCEPT !.rendered = TRUE]
    /\ cache' = RunCallbacks(response', response.callbacks, cache)
    /\ trace' = Append(trace, Ev("render", 0, "Response"))
    /\ pc' = IF pc = "render" THEN "process_response" ELSE "done"
    /\ UNCHANGED <<settings, environ, handlervars, request>>

\* UpdateCacheMiddleware.process_response as a response hook.
UpdateProcessResponse ==
    /\ pc = "process_response"
    /\ LET u == UpdateCache_process_response(
                    request, response, cache,
                    settings.CACHE_MIDDLEWARE_SECONDS)
       IN  /\ response' = u.response
           /\ cache' = u.cache
           /\ trace' = Append(trace,
                              Ev("process_response", 0,
                                 IF u.response.callbacks
                                        # response.callbacks
                                 THEN "deferred"
                                 ELSE IF u.cache # cache THEN "stored"
                                 ELSE IF u.response # response
                                 THEN "patched" ELSE "as_is"))
           /\ pc' = IF Deferred(u.response) /\ ~u.response.rendered
                    THEN "render_late" ELSE "done"
    /\ UNCHANGED <<settings, environ, handlervars, request>>

\* The response is returned; the worker waits for the next request.
CacheDone ==
    /\ pc = "done"
    /\ pc' = "idle"
    /\ UNCHANGED <<envvars, handlervars, request, response, trace>>

\* The cache backend drops an entry whose timeout has passed.
CacheExpire ==
    /\ pc = "idle"
    /\ \E key \in DOMAIN cache :
          cache' = [k \in DOMAIN cache \ {key} |-> cache[k]]
    /\ UNCHANGED <<settings, environ, handlervars, request, response,
                   trace, pc>>

NextCache ==
    \/ CacheRequest
    \/ FetchProcessRequest
    \/ NoFetchMiddleware
    \/ CacheView
    \/ CacheRender
    \/ UpdateProcessResponse
    \/ CacheDone
    \/ CacheExpire

SpecCache == InitCache /\ [][NextCache]_vars

-----------------------------------------------------------------------------
(* django.middleware.csrf (src/middleware/csrf.py)                          *)
(*                                                                          *)
(* One request passes CsrfViewMiddleware, and the csrf_protect decorator    *)
(* built from it when the view has one; request hooks, the view and         *)
(* response hooks call get_token and rotate_token as they please.  A token  *)
(* is a sequence of characters.                                             *)

\* An optional value: absent, or present with a value.
Absent == <<>>
Some(x) == <<x>>

\* Characters of tokens: alphanumeric ones and one that is not.
Alnum == {"a", "b"}
Chars == Alnum \cup {"-"}

\* _get_new_csrf_key(): a random string of CSRF_KEY_LENGTH alphanumerics;
\* two of them are told apart.
NewKeys == {[k \in 1..CSRF_KEY_LENGTH |-> c] : c \in Alnum}

\* A cookie value longer than a key.
TooLong == [k \in 1..(CSRF_KEY_LENGTH + 1) |-> "a"]

\* Values of the incoming CSRF cookie, and of the csrfmiddlewaretoken field
\* and the X-CSRFToken header ("" when not sent).
CookieValues == {<<"a", "b">>, <<"a", "-">>, <<"-", "-">>, TooLong}
TokenValues == {<<>>, <<"a", "b">>, <<"a">>}

\* Faulty variant of _sanitize_token: the cookie value is used as sent.
_sanitize_token_Identity(token, key) == token

\* Lines 87-95; `key` is what _get_new_csrf_key() returns when called.
_sanitize_token(token, key) ==
    IF Len(token) > CSRF_KEY_LENGTH THEN key
    ELSE LET t == SelectSeq(token, LAMBDA c : c \in Alnum)
         IN  IF t = <<>> THEN key ELSE t

\* django.utils.http.same_origin: scheme, host and port agree.
same_origin(url1, url2) == url1.scheme = url2.scheme /\ url1.host = url2.host

\* 'https://%s/' % request.get_host()
good_referer == [scheme |-> "https", host |-> "host"]

Referers == {Absent, Some(good_referer),
             Some([scheme |-> "https", host |-> "other"])}

\* The requests explored.  resolver_match: the view is plain, csrf_exempt,
\* or wrapped in csrf_protect; readable: reading request.POST raises no
\* IOError.  A request over http sends no Referer worth telling apart, and
\* only a POST request has POST data.
CsrfRequests ==
    {rq \in [method : {"GET", "POST", "PUT"},
             COOKIES : {Absent} \cup {Some(v) : v \in CookieValues},
             POST : TokenValues,
             readable : BOOLEAN,
             HTTP_X_CSRFTOKEN : TokenValues,
             is_secure : BOOLEAN,
             HTTP_REFERER : Referers,
             resolver_match : {"plain", "csrf_exempt", "csrf_protect"},
             _dont_enforce_csrf_checks : BOOLEAN,
             csrf_processing_done : {FALSE},
             CSRF_COOKIE : {Absent},
             CSRF_COOKIE_USED : {FALSE}] :
        /\ rq.method # "POST" => (rq.POST = <<>> /\ rq.readable)
        /\ ~rq.is_secure => rq.HTTP_REFERER = Absent
        /\ rq._dont_enforce_csrf_checks => rq.resolver_match = "plain"}

\* A response: the CSRF cookie it sets, whether it varies on Cookie, and the
\* csrf_processing_done attribute.
CsrfResponse(status) ==
    [status |-> status, cookie |-> Absent, vary_cookie |-> FALSE,
     csrf_processing_done |-> FALSE]

\* Lines 111-116
_accept(rq) ==
    [request |-> [rq EXCEPT !.csrf_processing_done = TRUE],
     response |-> CsrfResponse(0), reason |-> "-"]

\* Lines 118-126: the failure view answers.
_reject(rq, reason) ==
    [request |-> rq, response |-> CsrfResponse(403), reason |-> reason]

\* Faulty variant of TokenSent: the header is never looked at.
TokenSent_FieldOnly(rq) ==
    IF rq.method = "POST" /\ rq.readable THEN rq.POST ELSE <<>>

\* Lines 210-228: the csrfmiddlewaretoken field of a POST request whose
\* data can be read, else the X-CSRFToken header.
TokenSent(rq) ==
    LET request_csrf_token ==
            IF rq.method = "POST" /\ rq.readable THEN rq.POST ELSE <<>>
    IN  IF request_csrf_token = <<>> THEN rq.HTTP_X_CSRFTOKEN
        ELSE request_csrf_token

\* Lines 129-232, CsrfViewMiddleware.process_view: the request as it leaves
\* it and the response returned (status 0 for None).
process_view(rq, key) ==
    LET csrf_token ==
            IF rq.COOKIES = Absent THEN Absent
            ELSE Some(_sanitize_token(rq.COOKIES[1], key))
        rq1 == [rq EXCEPT !.CSRF_COOKIE =
                    IF csrf_token = Absent THEN Some(key) ELSE csrf_token]
    IN  IF rq.csrf_processing_done
        THEN [request |-> rq, response |-> CsrfResponse(0), reason |-> "-"]
        ELSE IF rq.resolver_match = "csrf_exempt"
        THEN [request |-> rq1, response |-> CsrfResponse(0), reason |-> "-"]
        ELSE IF rq.method \in {"GET", "HEAD", "OPTIONS", "TRACE"}
        THEN _accept(rq1)
        ELSE IF rq._dont_enforce_csrf_checks THEN _accept(rq1)
        ELSE IF rq.is_secure /\ rq.HTTP_REFERER = Absent
        THEN _reject(rq1, "REASON_NO_REFERER")
        ELSE IF rq.is_secure
                /\ ~same_origin(rq.HTTP_REFERER[1], good_referer)
        THEN _reject(rq1, "REASON_BAD_REFERER")
        ELSE IF csrf_token = Absent
        THEN _reject(rq1, "REASON_NO_CSRF_COOKIE")
        ELSE IF TokenSent(rq) # csrf_token[1]
        THEN _reject(rq1, "REASON_BAD_TOKEN")
        ELSE _accept(rq1)

\* Faulty variant of CookieUsed: the cookie is set whether or not a token
\* was asked for.
CookieUsed_Always(rq) == TRUE

\* Line 248
CookieUsed(rq) == rq.CSRF_COOKIE_USED

\* Lines 234-264, CsrfViewMiddleware.process_response
csrf_process_response(rq, r) ==
    IF r.csrf_processing_done THEN r
    ELSE IF rq.CSRF_COOKIE = Absent THEN r
    ELSE IF ~CookieUsed(rq) THEN r
    ELSE [r EXCEPT !.cookie = rq.CSRF_COOKIE, !.vary_cookie = TRUE,
                   !.csrf_processing_done = TRUE]

\* Lines 58-69
get_token(rq) == [rq EXCEPT !.CSRF_COOKIE_USED = TRUE]

\* Lines 72-84
rotate_token(rq, key) ==
    [rq EXCEPT !.CSRF_COOKIE_USED = TRUE, !.CSRF_COOKIE = Some(key)]

InitCsrf ==
    /\ NoHandler
    /\ settings = [CSRF_COOKIE_NAME |-> "csrftoken"]
    /\ cache = EmptyCache
    /\ environ = NoEnviron
    /\ request \in CsrfRequests
    /\ response = CsrfResponse(0)
    /\ trace = <<>>
    /\ pc = "process_request"

\* The calls of get_token and rotate_token made so far.
TokenCalls ==
    Len(SelectSeq(trace, LAMBDA e : e.ev \in {"get_token", "rotate_token"}))

\* Where other code runs that may ask for the token: request hooks and view
\* hooks that come before the middleware, the view, response hooks that
\* come before it.
TokenCallPoints == {"process_request", "view", "process_response"}

GetToken ==
    /\ pc \in TokenCallPoints
    /\ TokenCalls < MaxTokenCalls
    /\ request' = get_token(request)
    /\ trace' = Append(trace, Ev("get_token", 0, request.CSRF_COOKIE))
    /\ UNCHANGED <<envvars, handlervars, response, pc>>

RotateToken ==
    /\ pc \in TokenCallPoints
    /\ TokenCalls < MaxTokenCalls
    /\ \E key \in NewKeys :
          /\ request' = rotate_token(request, key)
          /\ trace' = Append(trace, Ev("rotate_token", 0, Some(key)))
    /\ UNCHANGED <<envvars, handlervars, response, pc>>

\* A request hook or an earlier view hook answers: process_view is not
\* called (base.py:119-122, 140-143).
CsrfShortCircuit ==
    /\ pc = "process_request"
    /\ response' = CsrfResponse(200)
    /\ trace' = Append(trace, Ev("process_request", 0, "Response"))
    /\ pc' = "process_response"
    /\ UNCHANGED <<envvars, handlervars, request>>

\* No hook before the middleware answers.
CsrfToView ==
    /\ pc = "process_request"
    /\ pc' = "process_view"
    /\ UNCHANGED <<envvars, handlervars, request, response, trace>>

\* process_view of the middleware, then of the csrf_protect decorator.
CsrfProcessView ==
    /\ pc \in {"process_view", "csrf_protect"}
    /\ \E key \in NewKeys :
          LET v == process_view(request, key)
          IN  /\ request' = v.request
              /\ trace' = Append(trace, Ev(pc, 0, v.reason))
              /\ IF v.response.status = 0
                 THEN /\ pc' = IF pc = "process_view"
                                  /\ request.resolver_match = "csrf_protect"
                               THEN "csrf_protect" ELSE "view"
                      /\ UNCHANGED response
                 ELSE /\ pc' = "process_response"
                      /\ response' = v.response
    /\ UNCHANGED <<envvars, handlervars>>

CsrfView ==
    /\ pc = "view"
    /\ response' = CsrfResponse(200)
    /\ trace' = Append(trace, Ev("view", 0, "Response"))
    /\ pc' = IF request.resolver_match = "csrf_protect"
             THEN "csrf_protect_response" ELSE "process_response"
    /\ UNCHANGED <<envvars, handlervars, request>>

\* process_response of the decorator, then of the middleware.
CsrfProcessResponse ==
    /\ pc \in {"csrf_protect_response", "process_response"}
    /\ response' = csrf_process_response(request, response)
    /\ trace' = Append(trace,
                       Ev(pc, 0, IF response' = response THEN "as_is"
                                 ELSE "set_cookie"))
    /\ pc' = IF pc = "process_response" THEN "done" ELSE "process_response"
    /\ UNCHANGED <<envvars, handlervars, request>>

NextCsrf ==
    \/ GetToken
    \/ RotateToken
    \/ CsrfShortCircuit
    \/ CsrfToView
    \/ CsrfProcessView
    \/ CsrfView
    \/ CsrfProcessResponse

SpecCsrf == InitCsrf /\ [][NextCsrf]_vars

-----------------------------------------------------------------------------
(* django.middleware.http (src/middleware/http.py)                          *)
(*                                                                          *)
(* ConditionalGetMiddleware.process_response is applied to a response of    *)
(* any of a range of statuses and headers, for a request with any of a      *)
(* range of conditional headers; trace keeps the response as it came.       *)

\* Values of a date header: two dates, the first the earlier, and one that
\* does not parse.
DateValues == {"Thu, 01 Jan 2015", "Fri, 02 Jan 2015", "yesterday"}

\* django.utils.http.parse_http_date_safe: seconds since the epoch (here,
\* the day), None for what is no HTTP date.
parse_http_date_safe(date) ==
    IF date = "Thu, 01 Jan 2015" THEN Some(1)
    ELSE IF date = "Fri, 02 Jan 2015" THEN Some(2)
    ELSE Absent

\* str() of the lengths in use.
str(n) == IF n = 0 THEN "0" ELSE IF n = 4 THEN "4" ELSE "?"

\* Faulty variant of IfNoneMatchApplies: only a 200 response is compared.
IfNoneMatchApplies_Only200(r) == r.status_code = 200 /\ r.ETag # Absent

\* Line 23
IfNoneMatchApplies(r) ==
    r.status_code >= 200 /\ r.status_code < 300 /\ r.ETag # Absent

\* Lines 12-48, ConditionalGetMiddleware.process_response
conditional_get(rq, r) ==
    LET dated == [r EXCEPT !.Date = Some("now")]
        sized == IF ~dated.streaming /\ dated.ContentLength = Absent
                 THEN [dated EXCEPT
                          !.ContentLength = Some(str(Len(dated.content)))]
                 ELSE dated
        matched == IF IfNoneMatchApplies(sized)
                      /\ rq.HTTP_IF_NONE_MATCH = sized.ETag
                   THEN [sized EXCEPT !.status_code = 304]
                   ELSE sized
        if_modified_since ==
            IF rq.HTTP_IF_MODIFIED_SINCE = Absent THEN Absent
            ELSE parse_http_date_safe(rq.HTTP_IF_MODIFIED_SINCE[1])
        last_modified ==
            IF matched.LastModified = Absent THEN Absent
            ELSE parse_http_date_safe(matched.LastModified[1])
    IN  IF /\ matched.status_code = 200
           /\ matched.LastModified # Absent
           /\ if_modified_since # Absent
           /\ last_modified # Absent
           /\ last_modified[1] <= if_modified_since[1]
        THEN [matched EXCEPT !.status_code = 304]
        ELSE matched

OptionalDates == {Absent} \cup {Some(d) : d \in DateValues}

InitConditionalGet ==
    /\ NoHandler
    /\ settings = [DEBUG |-> FALSE]
    /\ cache = EmptyCache
    /\ environ = NoEnviron
    /\ request \in [HTTP_IF_NONE_MATCH : {Absent, Some("x"), Some("y")},
                    HTTP_IF_MODIFIED_SINCE : OptionalDates]
    /\ response \in {r \in [status_code : {200, 204, 304, 404},
                            streaming : BOOLEAN,
                            content : {<<>>, <<"b", "o", "d", "y">>},
                            ContentLength : {Absent, Some("9")},
                            ETag : {Absent, Some("x")},
                            LastModified : OptionalDates,
                            Date : {Absent, Some("then")}] :
                        r.streaming => r.content = <<>>}
    /\ trace = <<response>>
    /\ pc = "process_response"

\* The middleware's response hook runs.
ConditionalGet ==
    /\ pc = "process_response"
    /\ response' = conditional_get(request, response)
    /\ pc' = "done"
    /\ UNCHANGED <<envvars, handlervars, request, trace>>

NextConditionalGet == ConditionalGet

SpecConditionalGet == InitConditionalGet /\ [][NextConditionalGet]_vars

-----------------------------------------------------------------------------
(* django.conf (src/conf/__init__.py)                                       *)
(*                                                                          *)
(* `settings` is the LazySettings object, `environ` the process             *)
(* environment; code configures the settings and reads attributes in any    *)
(* order.  trace records each call with its outcome.                        *)

\* django.utils.functional.empty, the value of _wrapped before setup.
empty == [class |-> "empty"]

\* Values of DJANGO_SETTINGS_MODULE: unset, empty, a module that loads and
\* one whose SECRET_KEY is empty.
SettingsModules == {"None", "", "mysite.settings", "nokey.settings"}

\* Keyword arguments of configure(): MEDIA_URL as a sequence of characters.
ConfigureOptions ==
    [DEBUG : BOOLEAN, MEDIA_URL : {<<>>, <<"/", "m", "/">>, <<"/", "m">>}]

\* Lines 86-90, BaseSettings.__setattr__: MEDIA_URL, if set, ends with a
\* slash.
SetattrRaises(options) ==
    /\ options.MEDIA_URL # <<>>
    /\ options.MEDIA_URL[Len(options.MEDIA_URL)] # "/"

\* Lines 96-153, Settings.__init__: the module is imported and checked.
SettingsInitRaises(settings_module) == settings_module = "nokey.settings"

\* Lines 71-77
configured(s) == s._wrapped # empty

\* Faulty variant of AlreadyConfigured: configure never refuses.
AlreadyConfigured_Never(s) == FALSE

\* Line 64
AlreadyConfigured(s) == s._wrapped # empty

\* Lines 56-69, LazySettings.configure: the settings as it leaves them and
\* what it raised ("None" when it returned).
configure(s, default_settings, options) ==
    IF AlreadyConfigured(s)
    THEN [settings |-> s, raised |-> "RuntimeError"]
    ELSE IF SetattrRaises(options)
    THEN [settings |-> s, raised |-> "ImproperlyConfigured"]
    ELSE [settings |-> [s EXCEPT !._wrapped =
                           [class |-> "UserSettingsHolder",
                            default_settings |-> default_settings,
                            options |-> options]],
          raised |-> "None"]

\* Lines 30-47, LazySettings._setup
_setup(s, env) ==
    LET settings_module == env.DJANGO_SETTINGS_MODULE
    IN  IF settings_module \in {"None", ""}
        THEN [settings |-> s, raised |-> "ImproperlyConfigured"]
        ELSE IF SettingsInitRaises(settings_module)
        THEN [settings |-> s, raised |-> "ImproperlyConfigured"]
        ELSE [settings |-> [s EXCEPT !._wrapped =
                               [class |-> "Settings",
                                SETTINGS_MODULE |-> settings_module]],
              raised |-> "None"]

\* The calls of configure and __getattr__ made so far.
SettingsCalls ==
    Len(SelectSeq(trace, LAMBDA e : e.ev \in {"configure", "__getattr__"}))

InitSettings ==
    /\ NoHandler
    /\ settings = [_wrapped |-> empty]
    /\ cache = EmptyCache
    /\ environ \in [DJANGO_SETTINGS_MODULE : SettingsModules]
    /\ request = NoRequest
    /\ response = None
    /\ trace = <<>>
    /\ pc = "idle"

\* settings.configure(default_settings, **options)
Configure ==
    /\ SettingsCalls < MaxSettingsCalls
    /\ \E d \in {"global_settings", "test_settings"},
          options \in ConfigureOptions :
          LET c == configure(settings, d, options)
          IN  /\ settings' = c.settings
              /\ trace' = Append(trace, Ev("configure", options, c.raised))
    /\ UNCHANGED <<cache, environ, handlervars, request, response, pc>>

\* Lines 49-53, settings.<name>: the first access sets the settings up.
GetAttr ==
    /\ SettingsCalls < MaxSettingsCalls
    /\ \E name \in {"DEBUG", "NO_SUCH_SETTING"} :
          IF settings._wrapped = empty
          THEN LET s == _setup(settings, environ)
               IN  /\ settings' = s.settings
                   /\ trace' =
                        IF s.raised # "None"
                        THEN trace \o
                             <<Ev("_setup", name, s.raised),
                               Ev("__getattr__", name, s.raised)>>
                        ELSE trace \o
                             <<Ev("_setup", name, "None"),
                               Ev("__getattr__", name,
                                  IF name = "DEBUG" THEN "None"
                                  ELSE "AttributeError")>>
          ELSE /\ trace' = Append(trace,
                                  Ev("__getattr__", name,
                                     IF name = "DEBUG" THEN "None"
                                     ELSE "AttributeError"))
               /\ UNCHANGED settings
    /\ UNCHANGED <<cache, environ, handlervars, request, response, pc>>

NextSettings ==
    \/ Configure
    \/ GetAttr

SpecSettings == InitSettings /\ [][NextSettings]_vars

-----------------------------------------------------------------------------
(* Reading the trace *)

Called(name) == \E k \in DOMAIN trace : trace[k].ev = name

\* The middleware (or status codes) the calls of `name` were made with.
ArgsOf(name) ==
    LET s == SelectSeq(trace, LAMBDA e : e.ev = name)
    IN [k \in 1..Len(s) |-> s[k].arg]

CountEv(name, arg) ==
    Cardinality({k \in DOMAIN trace :
                    trace[k].ev = name /\ trace[k].arg = arg})

Reverse(s) == [k \in 1..Len(s) |-> s[Len(s) + 1 - k]]

\* x stands before y in the sequence s.
Before(s, x, y) ==
    \E p, q \in DOMAIN s : p < q /\ s[p] = x /\ s[q] = y

IsPrefix(s, t) ==
    Len(s) <= Len(t) /\ \A k \in 1..Len(s) : s[k] = t[k]

\* Some response hook returned None or raised.
ResponseHookFailed ==
    \E k \in DOMAIN trace :
        trace[k].ev = "process_response" /\ trace[k].what # "Response"

\* Some collaborator raised SystemExit.
SystemExitRaised ==
    \E k \in DOMAIN trace :
        trace[k].what = "SystemExit"
        /\ trace[k].ev # "handle_uncaught_exception"

\* The lookup of the 500 handler, or the 500 handler, raised.
Handler500Failed ==
    \E k \in DOMAIN trace :
        /\ trace[k].ev \in {"resolve_error_handler", "error_handler"}
        /\ trace[k].arg = 500
        /\ trace[k].what \notin {"Handler", "Response"}

-----------------------------------------------------------------------------
(* Claims *)

\* C1: every response get_response returns was handed to every response
\* hook, in list order, however it was produced (no response hook failing).
C1_ReturnedResponseSawEveryResponseHook ==
    (result.kind = "returned" /\ ~ResponseHookFailed)
        => response.seen = _response_middleware

\* C2: a SystemExit raised at any stage leaves get_response as SystemExit:
\* nothing is called after it, it is never handed to
\* handle_uncaught_exception and never becomes a response.
C2_SystemExitPropagates ==
    \A k \in DOMAIN trace :
        (trace[k].what = "SystemExit"
         /\ trace[k].ev # "handle_uncaught_exception")
            => /\ k = Len(trace)
               /\ pc \in {"except", "done"}
               /\ pc = "done"
                    => result = [kind |-> "raised", exc |-> "SystemExit"]

\* C3: once a request hook has returned a response, neither resolve nor a
\* view hook nor the view is called for that request.
C3_ShortCircuitSkipsResolveAndView ==
    (\E k \in DOMAIN trace :
        trace[k].ev = "process_request" /\ trace[k].what = "Response")
        => ~Called("resolve") /\ ~Called("process_view") /\ ~Called("view")

\* A request whose request hook answered, in a handler that has view hooks,
\* has been served.
C3_Witness ==
    /\ pc = "done"
    /\ result.kind = "returned"
    /\ Len(_view_middleware) > 0
    /\ \E k \in DOMAIN trace :
         trace[k].ev = "process_request" /\ trace[k].what = "Response"

\* Among the first n configured middleware, those that were constructed
\* and define `hook`, in configuration order.
Loaded(hook, n) ==
    SelectSeq([k \in 1..n |-> k],
              LAMBDA k : /\ settings.MIDDLEWARE_CLASSES[k] # "NotUsed"
                         /\ hook \in HooksOf(settings.MIDDLEWARE_CLASSES[k]))

\* The configured (and used) middleware that define `hook`, in
\* configuration order.
Configured(hook) == Loaded(hook, Len(settings.MIDDLEWARE_CLASSES))

\* C4: after load_middleware, request and view hooks are in configuration
\* order and template-response, response and exception hooks in reverse
\* configuration order; so the request hooks of two middleware are called
\* in configuration order and their response hooks in the reverse order.
C4_HookListOrder ==
    /\ (lpc = "done" /\ pc = "idle") =>
         /\ _request_middleware = Configured("process_request")
         /\ _view_middleware = Configured("process_view")
         /\ _template_response_middleware =
                Reverse(Configured("process_template_response"))
         /\ _response_middleware = Reverse(Configured("process_response"))
         /\ _exception_middleware = Reverse(Configured("process_exception"))
    /\ pc # "idle" =>
         /\ IsPrefix(ArgsOf("process_request"), _request_middleware)
         /\ IsPrefix(ArgsOf("process_response"), _response_middleware)
         /\ \A a, b \in 1..Len(settings.MIDDLEWARE_CLASSES) :
              (a < b /\ {"process_request", "process_response"} \subseteq
                   (HooksOf(settings.MIDDLEWARE_CLASSES[a])
                    \cap HooksOf(settings.MIDDLEWARE_CLASSES[b]))
               /\ "NotUsed" \notin {settings.MIDDLEWARE_CLASSES[a],
                                    settings.MIDDLEWARE_CLASSES[b]}) =>
                 /\ Before(_request_middleware, a, b)
                 /\ Before(_response_middleware, b, a)

\* Two middleware with request and response hooks served a request: the
\* request hooks ran first-configured first, the response hooks last-
\* configured first.
C4_Witness ==
    /\ pc = "done"
    /\ ArgsOf("process_request") = <<1, 2>>
    /\ ArgsOf("process_response") = <<2, 1>>

\* C5 as stated: with the propagate-exceptions flag off and no SystemExit
\* raised, every request ends with a returned response and no failure
\* reaches the caller.
C5_AlwaysAResponse ==
    (pc = "done" /\ ~settings.DEBUG_PROPAGATE_EXCEPTIONS /\ ~SystemExitRaised)
        => result.kind = "returned" /\ response # None

\* C5 as amended: with the propagate-exceptions flag off and no SystemExit
\* raised, a request ends with exactly one returned response provided debug
\* mode is on, or an error-handler table is configured and neither the
\* lookup of the 500 handler nor the 500 handler fails.  Every started
\* request can take its next step until it is done, and a result exists
\* exactly when it is done.
C5_AResponseUnlessNothingRecoverable ==
    /\ (pc = "done" /\ ~settings.DEBUG_PROPAGATE_EXCEPTIONS
        /\ ~SystemExitRaised
        /\ (settings.DEBUG \/ (~NoUrlconfModule /\ ~Handler500Failed)))
          => result.kind = "returned" /\ response # None
    /\ (pc = "done") <=> (result.kind # "none")
    /\ pc \notin {"idle", "done"} => ENABLED Next

\* With debug off, a failure was translated by the 500 handler and the
\* request ended with that handler's response.
C5_Witness ==
    /\ pc = "done"
    /\ ~settings.DEBUG_PROPAGATE_EXCEPTIONS /\ ~settings.DEBUG
    /\ result.kind = "returned"
    /\ response.src = "error_handler" /\ response.status = 500
    /\ Called("handle_uncaught_exception")

\* r is one of the responses in `made`, whatever was done to it since.
IsOneOf(r, made) ==
    \E q \in made : /\ r.src = q.src /\ r.by = q.by
                     /\ r.status = q.status /\ r.render = q.render

TechnicalPages == {"technical_404_response", "technical_500_response"}

\* What a request that is in a NotFound translation must show in any state.
C6_Inv ==
    /\ CountEv("logger.warning", 404) <= 1
    /\ CountEv("resolve_error_handler", 404) =
           (IF settings.DEBUG THEN 0 ELSE CountEv("logger.warning", 404))
    /\ ~settings.DEBUG => response.src \notin TechnicalPages

\* The step that translates a NotFound failure.
C6_Step ==
    (pc = "except" /\ exc = "Http404") =>
        LET n == Len(trace) IN
        /\ Len(trace') >= n + 2
        /\ trace'[n + 1] = Ev("logger.warning", 404, "-")
        /\ IF settings.DEBUG
           THEN /\ trace' = trace \o
                       <<Ev("logger.warning", 404, "-"),
                         Ev("technical_404_response", 404, "Response")>>
                /\ response' = Technical("technical_404_response", 404)
                /\ pc' = ResponsePhase
           ELSE /\ trace'[n + 2].ev = "resolve_error_handler"
                /\ trace'[n + 2].arg = 404
                /\ \A k \in DOMAIN trace' : trace'[k].ev \notin TechnicalPages
                /\ trace'[Len(trace')] = Ev("error_handler", 404, "Response")
                     => /\ Len(trace') = n + 3
                        /\ response' \in HandlerReturns(404)
                        /\ pc' = ResponsePhase

\* C6: a NotFound failure is answered, in debug mode, by the technical 404
\* page without resolve_error_handler(404) being called; with debug off,
\* resolve_error_handler(404) is called exactly once and the response the
\* 404 handler produced is the one handed on, never a technical page.
C6_NotFoundTranslation == []C6_Inv /\ [][C6_Step]_vars

\* With debug off a route was not found and the request ended with the
\* response of the 404 handler.
C6_Witness ==
    /\ pc = "done"
    /\ ~settings.DEBUG
    /\ result.kind = "returned"
    /\ \E k \in DOMAIN trace : trace[k] = Ev("resolve", 0, "Http404")
    /\ response.src = "error_handler" /\ response.status = 404

\* C7: handle_uncaught_exception decides in this order: propagate flag set,
\* re-raise; else debug mode, the technical 500 page with status 500; else
\* no urlconf module, re-raise; else the response of the 500 handler.  A
\* view raising a plain exception, with no exception hook, is handed to it.
C7_UncaughtDecisionChain ==
    \A k \in DOMAIN trace :
      /\ trace[k].ev = "handle_uncaught_exception" =>
           LET e == trace[k].what
               raisedOut == /\ pc = "done"
                            /\ result = [kind |-> "raised", exc |-> e]
           IN
           IF settings.DEBUG_PROPAGATE_EXCEPTIONS
           THEN k = Len(trace) /\ raisedOut
           ELSE /\ Len(trace) >= k + 1
                /\ trace[k + 1] = Ev("logger.error", 500, "-")
                /\ IF settings.DEBUG
                   THEN /\ Len(trace) >= k + 2
                        /\ trace[k + 2] =
                             Ev("technical_500_response", 500, "Response")
                        /\ Len(trace) = k + 2 =>
                             IsOneOf(response,
                               {Technical("technical_500_response", 500)})
                   ELSE IF NoUrlconfModule
                   THEN Len(trace) = k + 1 /\ raisedOut
                   ELSE /\ Len(trace) >= k + 2
                        /\ trace[k + 2].ev = "resolve_error_handler"
                        /\ trace[k + 2].arg = 500
                        /\ (Len(trace) = k + 3
                            /\ trace[k + 3] =
                                 Ev("error_handler", 500, "Response"))
                             => IsOneOf(response, HandlerReturns(500))
      /\ (trace[k] = Ev("view", 0, "Exception")
          /\ Len(_exception_middleware) = 0 /\ pc # "except") =>
           /\ Len(trace) >= k + 2
           /\ trace[k + 1] = Ev("got_request_exception", 0, "-")
           /\ trace[k + 2] = Ev("handle_uncaught_exception", 0, "Exception")

\* In debug mode, with no exception hook, the view raised a plain exception
\* and the request ended with the technical 500 page.
C7_Witness ==
    /\ pc = "done"
    /\ settings.DEBUG /\ ~settings.DEBUG_PROPAGATE_EXCEPTIONS
    /\ Len(_exception_middleware) = 0
    /\ \E k \in DOMAIN trace : trace[k] = Ev("view", 0, "Exception")
    /\ result.kind = "returned"
    /\ response.src = "technical_500_response" /\ response.status = 500

\* The step that translates a SuspiciousOperation failure.
C8_Step ==
    (pc = "except" /\ exc = "SuspiciousOperation") =>
        LET n == Len(trace) IN
        /\ Len(trace') >= n + 2
        /\ trace'[n + 1] = Ev("security_logger.error", 400, "-")
        /\ IF settings.DEBUG
           THEN /\ trace' = trace \o
                       <<Ev("security_logger.error", 400, "-"),
                         Ev("technical_500_response", 400, "Response")>>
                /\ response' = Technical("technical_500_response", 400)
                /\ result'.kind = "returned"
           ELSE /\ trace'[n + 2].ev = "resolve_error_handler"
                /\ trace'[n + 2].arg = 400
                /\ trace'[Len(trace')] = Ev("error_handler", 400, "Response")
                     => /\ Len(trace') = n + 3
                        /\ response' \in HandlerReturns(400)

C9_Step ==
    (pc = "except" /\ exc \in {"PermissionDenied", "MultiPartParserError"}) =>
        LET n == Len(trace)
            code == IF exc = "PermissionDenied" THEN 403 ELSE 400
        IN
        /\ Len(trace') >= n + 2
        /\ trace'[n + 1] = Ev("logger.warning", code, "-")
        /\ trace'[n + 2].ev = "resolve_error_handler"
        /\ trace'[n + 2].arg = code
        /\ trace'[Len(trace')] = Ev("error_handler", code, "Response")
             => /\ Len(trace') = n + 3
                /\ response' \in HandlerReturns(code)
                /\ pc' = ResponsePhase
        /\ \A k \in (n + 1)..Len(trace') :
             trace'[k].ev \in TechnicalPages =>
                \E j \in (n + 1)..(k - 1) :
                    trace'[j].ev = "handle_uncaught_exception"

\* C9: PermissionDenied is translated by resolve_error_handler(403) and
\* MultiPartParserError by resolve_error_handler(400), in debug mode as
\* without it; a technical page appears only if that translation itself
\* failed and went through handle_uncaught_exception.
C9_ForbiddenAndMalformedDelegate == [][C9_Step]_vars

\* In debug mode a PermissionDenied ended with the 403 handler's response.
C9_Witness ==
    /\ pc = "done"
    /\ settings.DEBUG
    /\ result.kind = "returned"
    /\ Called("resolve_error_handler")
    /\ response.src = "error_handler" /\ response.status = 403

\* The exception the view raised ("None" if it raised none).
ViewRaised ==
    LET s == SelectSeq(trace, LAMBDA e : e.ev = "view")
    IN IF s # <<>> /\ s[1].what \notin {"None", "Response"}
       THEN s[1].what ELSE "None"

\* The first thing the except clause for exception e does.
FirstOfTranslation(e) ==
    CASE e = "Http404" -> Ev("logger.warning", 404, "-")
      [] e = "PermissionDenied" -> Ev("logger.warning", 403, "-")
      [] e = "MultiPartParserError" -> Ev("logger.warning", 400, "-")
      [] e = "SuspiciousOperation" -> Ev("security_logger.error", 400, "-")
      [] OTHER -> Ev("got_request_exception", 0, "-")

\* A response was returned by an exception hook and everything called
\* since succeeded and handed the same response on.
ExceptionHookAnswered(k) ==
    /\ trace[k].ev = "process_exception" /\ trace[k].what = "Response"
    /\ \A j \in (k + 1)..Len(trace) :
         /\ trace[j].ev \in {"process_response", "apply_response_fixes"}
         /\ trace[j].what = "Response"

C10_Inv ==
    /\ pc # "idle" =>
         IsPrefix(ArgsOf("process_exception"), _exception_middleware)
    /\ Called("process_exception") =>
         ViewRaised \in ExcKinds \ {"SystemExit"}
    /\ \A k \in DOMAIN trace :
         (ExceptionHookAnswered(k) /\ ~response.render) =>
            /\ response.src = "process_exception"
            /\ response.by = trace[k].arg
            /\ pc # "except"
            /\ result.kind # "raised"
            /\ ~Called("handle_uncaught_exception")
            /\ ~Called("resolve_error_handler")

C10_Step ==
    /\ pc = "process_exception" =>
         LET last == trace'[Len(trace')] IN
         /\ trace' = Append(trace, last)
         /\ last.ev = "process_exception"
         /\ last.arg = _exception_middleware[i]
         /\ last.what = "Response" =>
              /\ response'.src = "process_exception"
              /\ response'.by = last.arg
              /\ exc' = "None"
              /\ pc' = AfterView(response')
         /\ (last.what = "None" /\ i < Len(_exception_middleware)) =>
              /\ pc' = "process_exception" /\ i' = i + 1 /\ exc' = exc
         /\ (last.what = "None" /\ i = Len(_exception_middleware)) =>
              /\ pc' = "except" /\ exc' = ViewRaised
    /\ (pc = "view" /\ ViewRaised' # "None") =>
         /\ exc' = ViewRaised'
         /\ pc' = IF ViewRaised' # "SystemExit"
                     /\ Len(_exception_middleware) > 0
                  THEN "process_exception" ELSE "except"
    /\ (pc = "except" /\ trace[Len(trace)].what \in {"None"} \cup ExcKinds
        /\ trace[Len(trace)].ev \in {"process_exception", "view"}
        /\ exc = ViewRaised /\ exc # "SystemExit") =>
         /\ Len(trace') > Len(trace)
         /\ trace'[Len(trace) + 1] = FirstOfTranslation(ViewRaised)

\* C10: when the view raises an exception the exception hooks are called in
\* list order; the first response one of them returns becomes the response
\* and the exception is not translated; if every hook returns None the
\* exception the view raised goes to the except clause of its own kind.
C10_ExceptionHooks == []C10_Inv /\ [][C10_Step]_vars

\* The view raised PermissionDenied, the first exception hook declined, the
\* second answered, and the request ended with that hook's response.
C10_Witness ==
    /\ pc = "done"
    /\ result.kind = "returned"
    /\ ViewRaised = "PermissionDenied"
    /\ \E k \in DOMAIN trace :
         /\ k > 1
         /\ trace[k - 1] = Ev("process_exception", 2, "None")
         /\ trace[k] = Ev("process_exception", 1, "Response")
    /\ response.src = "process_exception" /\ response.by = 1

\* Some response hook returned None.
ResponseHookReturnedNone ==
    \E k \in DOMAIN trace :
        trace[k].ev = "process_response" /\ trace[k].what = "None"

\* C11 as stated: after a response hook returned None the response that is
\* returned has status 500 and, with the propagate-exceptions flag off, the
\* ValueError raised for it does not reach the caller.
C11_EmptyResponseHookGives500 ==
    (pc = "done" /\ ResponseHookReturnedNone) =>
        /\ result.kind = "returned" => response.status = 500
        /\ ~settings.DEBUG_PROPAGATE_EXCEPTIONS =>
              result # [kind |-> "raised", exc |-> "ValueError"]

\* C11 as amended: a None from a response hook raises a ValueError that goes
\* to got_request_exception and handle_uncaught_exception; a response that
\* is then returned is the technical 500 page or the 500 handler's response,
\* with status 500; with the propagate-exceptions flag off the ValueError
\* does not reach the caller provided debug mode is on or the resolver has a
\* urlconf module, and a response is returned if moreover the 500 handler
\* does not fail.
C11_EmptyResponseHookIsUncaught ==
    /\ \A k \in DOMAIN trace :
         (trace[k].ev = "process_response" /\ trace[k].what = "None") =>
            /\ Len(trace) >= k + 3
            /\ trace[k + 1] = Ev("raise", 0, "ValueError")
            /\ trace[k + 2] = Ev("got_request_exception", 0, "-")
            /\ trace[k + 3] = Ev("handle_uncaught_exception", 0, "ValueError")
    /\ (pc = "done" /\ ResponseHookReturnedNone) =>
         /\ result.kind = "returned" =>
              /\ response.status = 500
              /\ response.src \in {"technical_500_response", "error_handler"}
         /\ (~settings.DEBUG_PROPAGATE_EXCEPTIONS
             /\ (settings.DEBUG \/ ~NoUrlconfModule)) =>
              /\ result # [kind |-> "raised", exc |-> "ValueError"]
              /\ ~Handler500Failed => result.kind = "returned"

\* With debug and propagation off, a response hook returned None and the
\* request ended with the 500 handler's response.
C11_Witness ==
    /\ pc = "done"
    /\ ~settings.DEBUG /\ ~settings.DEBUG_PROPAGATE_EXCEPTIONS
    /\ ResponseHookReturnedNone
    /\ result.kind = "returned"
    /\ response.src = "error_handler" /\ response.status = 500

\* C12: when the view returns None (no hook having produced a response) a
\* ValueError is raised inside get_response and translated as an uncaught
\* exception (got_request_exception, then handle_uncaught_exception); None
\* is never handed to a template-response hook, to render, to a response
\* hook or to the caller.
C12_ViewReturningNoneIsUncaught ==
    /\ \A k \in DOMAIN trace :
         trace[k] = Ev("view", 0, "None") =>
            /\ \A j \in 1..(k - 1) :
                 trace[j].ev \in {"process_request", "process_view"}
                    => trace[j].what = "None"
            /\ Len(trace) >= k + 1
            /\ trace[k + 1] = Ev("raise", 0, "ValueError")
            /\ Len(trace) = k + 1 => (pc = "except" /\ exc = "ValueError")
            /\ Len(trace) > k + 1 =>
                 /\ Len(trace) >= k + 3
                 /\ trace[k + 2] = Ev("got_request_exception", 0, "-")
                 /\ trace[k + 3] =
                        Ev("handle_uncaught_exception", 0, "ValueError")
            /\ \A j \in (k + 1)..Len(trace) :
                 trace[j].ev \notin {"process_template_response", "render"}
    /\ pc \in {"process_template_response", "render", "process_response",
               "apply_response_fixes", "finish"} => response # None
    /\ result.kind = "returned" => response # None

\* With debug on, no view hook answered, the view returned None and the
\* request ended with the technical 500 page.
C12_Witness ==
    /\ pc = "done"
    /\ settings.DEBUG /\ ~settings.DEBUG_PROPAGATE_EXCEPTIONS
    /\ Called("process_view")
    /\ \E k \in DOMAIN trace : trace[k] = Ev("view", 0, "None")
    /\ result.kind = "returned"
    /\ response.src = "technical_500_response" /\ response.status = 500

\* No hook of the list `hook` was called after one of them returned a
\* response.
FirstWins(hook) ==
    LET s == SelectSeq(trace, LAMBDA e : e.ev = hook)
    IN \A k \in 1..(Len(s) - 1) : s[k].what # "Response"

\* C13 as stated: in the request, view, exception and template-response
\* hook lists the first hook that returns a response is the last one called.
C13_FirstWinsInEveryOtherList ==
    /\ FirstWins("process_request")
    /\ FirstWins("process_view")
    /\ FirstWins("process_exception")
    /\ FirstWins("process_template_response")

C13_Inv ==
    /\ FirstWins("process_request")
    /\ FirstWins("process_view")
    /\ FirstWins("process_exception")
    /\ pc # "idle" =>
         /\ IsPrefix(ArgsOf("process_template_response"),
                     _template_response_middleware)
         /\ IsPrefix(ArgsOf("process_response"), _response_middleware)
    /\ (pc = "render" /\ Called("process_template_response")) =>
         ArgsOf("process_template_response") = _template_response_middleware
    /\ pc \in {"apply_response_fixes"} =>
         /\ ArgsOf("process_response") = _response_middleware
         /\ response.seen = _response_middleware

\* A template-response or response hook that returns a response is followed
\* by the next hook of its list, which is handed that response; after the
\* last one come render respectively the response fixes.
C13_Step ==
    (/\ pc \in {"process_template_response", "process_response"}
     /\ trace' = Append(trace, Ev(pc, trace'[Len(trace')].arg, "Response"))) =>
        LET list == IF pc = "process_response" THEN _response_middleware
                    ELSE _template_response_middleware
        IN
        /\ trace'[Len(trace')].arg = list[i]
        /\ response' # None
        /\ IF i < Len(list)
           THEN pc' = pc /\ i' = i + 1
           ELSE pc' = (IF pc = "process_response"
                       THEN "apply_response_fixes" ELSE "render")

\* C13 as amended: in the request, view and exception hook lists the first
\* hook that returns a response is the last one called; the
\* template-response hooks, like the response hooks, are all called in list
\* order, each with what the one before returned, before render respectively
\* the response fixes.
C13_FirstWinsExceptTemplateAndResponse == []C13_Inv /\ [][C13_Step]_vars

\* Two view hooks are loaded, the first answered and the second was not
\* called; and both template-response hooks ran on that response.
C13_Witness ==
    /\ pc = "done"
    /\ Len(_view_middleware) = 2
    /\ ArgsOf("process_view") = <<1>>
    /\ \E k \in DOMAIN trace : trace[k] = Ev("process_view", 1, "Response")
    /\ ArgsOf("process_template_response") = <<2, 1>>

\* C16: every response get_response returns has had the request appended to
\* its _closable_objects exactly once.
C16_RequestAttachedExactlyOnce ==
    result.kind = "returned" => response.closable = 1

\* A request hook returned a response.
ShortCircuited ==
    \E k \in DOMAIN trace :
        trace[k].ev = "process_request" /\ trace[k].what = "Response"

\* Nothing get_response called has raised, and no template-response or
\* response hook has returned None.
NothingFailed ==
    \A k \in DOMAIN trace :
        /\ trace[k].ev # "raise"
        /\ trace[k].what \in {"-", "None", "Response", "Match", "Handler"}
        /\ trace[k].ev \in {"process_template_response", "process_response"}
             => trace[k].what = "Response"

\* C20: when a request hook answers, the response hooks of every loaded
\* middleware still run, in reverse configuration order, also those of
\* middleware configured after the answering one (whose request hooks were
\* not called), as long as nothing fails afterwards.
C20_ShortCircuitRunsEveryResponseHook ==
    (ShortCircuited /\ NothingFailed) =>
        /\ pc \notin {"except", "resolve", "process_view", "view",
                      "process_exception"}
        /\ pc \in {"apply_response_fixes", "finish", "done"} =>
             /\ ArgsOf("process_response") =
                    Reverse(Configured("process_response"))
             /\ response.seen = Reverse(Configured("process_response"))
        /\ pc = "done" =>
             /\ result.kind = "returned"
             /\ Called("apply_response_fixes")

\* Of two middleware the first one's request hook answered, so the second
\* one's request hook was not called, and the response hooks ran as second,
\* then first.
C20_Witness ==
    /\ pc = "done"
    /\ result.kind = "returned"
    /\ ArgsOf("process_request") = <<1>>
    /\ trace[2] = Ev("process_request", 1, "Response")
    /\ ArgsOf("process_response") = <<2, 1>>

\* The four lists load_middleware fills in place hold the hooks of the first
\* n configured middleware.
ListsHold(n) ==
    /\ _view_middleware = Loaded("process_view", n)
    /\ _template_response_middleware =
           Reverse(Loaded("process_template_response", n))
    /\ _response_middleware = Reverse(Loaded("process_response", n))
    /\ _exception_middleware = Reverse(Loaded("process_exception", n))

C14_Inv ==
    /\ _request_middleware # NoList =>
         /\ lpc = "done"
         /\ _request_middleware = Configured("process_request")
         /\ ListsHold(Len(settings.MIDDLEWARE_CLASSES))
    /\ lpc \in {"loop", "failed"} => _request_middleware = NoList
    /\ pc # "idle" => (lpc = "done" /\ _request_middleware # NoList)

\* Once _request_middleware is set, no step changes any of the five lists.
C14_Step ==
    _request_middleware # NoList =>
        UNCHANGED <<_request_middleware, _view_middleware,
                    _template_response_middleware, _response_middleware,
                    _exception_middleware>>

C15_NotUsedIsSkipped ==
    /\ (pc = "idle" /\ lpc \in {"loop", "failed", "done"}) =>
         /\ li \in 1..(Len(settings.MIDDLEWARE_CLASSES) + 1)
         /\ request_middleware = Loaded("process_request", li - 1)
         /\ ListsHold(li - 1)
    /\ lpc = "failed" =>
         /\ li <= Len(settings.MIDDLEWARE_CLASSES)
         /\ settings.MIDDLEWARE_CLASSES[li] \in {"Missing", "Broken"}
         /\ _request_middleware = NoList
    /\ lpc = "done" =>
         /\ li = Len(settings.MIDDLEWARE_CLASSES) + 1
         /\ \A k \in 1..Len(settings.MIDDLEWARE_CLASSES) :
              settings.MIDDLEWARE_CLASSES[k] \notin {"Missing", "Broken"}
         /\ _request_middleware = request_middleware

\* A class raising MiddlewareNotUsed is configured before a used one: the
\* load went through and the lists hold the second middleware only.
C15_Witness ==
    /\ lpc = "done"
    /\ settings.MIDDLEWARE_CLASSES = <<"NotUsed", "Full">>
    /\ _request_middleware = <<2>>
    /\ _response_middleware = <<2>>
    /\ _exception_middleware = <<2>>

\* The request before this one, on the same thread, left `urlconf` active.
PreviousLeft(urlconf) ==
    \E k \in DOMAIN trace : trace[k] = Ev("served", 0, urlconf)

\* C19: whatever the request before left active, get_response makes
\* settings.ROOT_URLCONF the active urlconf and builds its resolver over it
\* before the request hooks run; a request without a urlconf attribute is
\* served against ROOT_URLCONF throughout, and one with the attribute is
\* rebound to it when the route is resolved.
C19_OverrideLastsOneRequest ==
    /\ pc \in {"process_request", "resolve"} =>
         /\ _urlconfs = settings.ROOT_URLCONF
         /\ resolver = settings.ROOT_URLCONF
    /\ (pc # "idle" /\ request.urlconf = "absent") =>
         /\ _urlconfs = settings.ROOT_URLCONF
         /\ resolver = settings.ROOT_URLCONF
    /\ (Called("resolve") /\ request.urlconf # "absent") =>
         /\ _urlconfs = request.urlconf
         /\ resolver = request.urlconf
    /\ pc = "idle" => resolver = "unbound"

\* The request before used an override; this one has none and its route was
\* resolved against ROOT_URLCONF.
C19_Witness ==
    /\ PreviousLeft("override_urls")
    /\ request = Request("absent")
    /\ \E k \in DOMAIN trace : trace[k] = Ev("resolve", 0, "Match")
    /\ resolver = settings.ROOT_URLCONF
    /\ _urlconfs = settings.ROOT_URLCONF

\* C17: every response get_response returns has been through the response
\* fixes, fix_location_header and then conditional_content_removal, applied
\* after the last response hook as the last thing before the return.
C17_FixesAppliedBeforeEveryReturn ==
    result.kind = "returned" =>
        /\ response.fixes = <<"fix_location_header",
                              "conditional_content_removal">>
        /\ trace[Len(trace)] = Ev("apply_response_fixes", 0, "Response")

\* C18: applying the response fixes to a response that has been through them
\* for the same request changes neither its status nor its headers nor its
\* content.
C18_FixesIdempotent ==
    pc = "refixed" =>
        /\ Len(trace) = 3
        /\ trace[3] = trace[2]
        /\ response = trace[2]

\* A 304 response with a relative Location and a body was changed by the
\* first application (Location made absolute, body stripped) and not by the
\* second.
C18_Witness ==
    /\ pc = "refixed"
    /\ request.host = "testserver"
    /\ trace[1].status = 304
    /\ trace[1].Location = RelativeLocation
    /\ trace[1].content = "body"
    /\ trace[2].Location = AbsoluteLocation
    /\ trace[2].content = ""
    /\ trace[2].ContentLength = "0"
    /\ trace[3] = trace[2]

\* The stages whose response may be rendered: request hooks, view hooks, the
\* view and exception hooks.
Producers == {"process_request", "process_view", "view", "process_exception"}

C21_Inv ==
    /\ CountEv("render", 0) <= 1
    /\ Called("render") =>
         ArgsOf("process_template_response") = _template_response_middleware
    /\ response.rendered =>
         /\ response.render
         /\ \E k \in DOMAIN trace : trace[k] = Ev("render", 0, "Response")
    /\ \A k \in DOMAIN trace :
         /\ trace[k].ev = "process_template_response" =>
              /\ \E j \in 1..(k - 1) :
                   trace[j].ev \in Producers /\ trace[j].what = "Response"
              /\ \A j \in 1..(k - 1) : trace[j].ev # "render"
         /\ (trace[k].ev = "process_template_response"
             /\ trace[k].what = "None") =>
              /\ Len(trace) >= k + 1
              /\ trace[k + 1] = Ev("raise", 0, "ValueError")
              /\ Len(trace) = k + 1 => (pc = "except" /\ exc = "ValueError")
              /\ Len(trace) > k + 1 =>
                   /\ Len(trace) >= k + 3
                   /\ trace[k + 2] = Ev("got_request_exception", 0, "-")
                   /\ trace[k + 3] =
                          Ev("handle_uncaught_exception", 0, "ValueError")

C21_Step ==
    /\ (/\ pc \in Producers
        /\ trace'[Len(trace')].ev = pc
        /\ trace'[Len(trace')].what = "Response") =>
          IF response'.render
          THEN /\ i' = 1
               /\ pc' = IF Len(_template_response_middleware) = 0
                        THEN "render" ELSE "process_template_response"
          ELSE pc' \in {"process_response", "apply_response_fixes"}
    /\ (pc = "process_template_response"
        /\ trace'[Len(trace')].what = "Response") =>
          /\ trace' = Append(trace, Ev("process_template_response",
                                      _template_response_middleware[i],
                                      "Response"))
          /\ IF i < Len(_template_response_middleware)
             THEN pc' = pc /\ i' = i + 1
             ELSE pc' = "render"
    /\ (pc = "render" /\ response.render) =>
          /\ Len(trace') = Len(trace) + 1
          /\ trace'[Len(trace')].ev = "render"
          /\ trace'[Len(trace')].what = "Response" =>
               /\ response' = [response EXCEPT !.rendered = TRUE]
               /\ pc' \in {"process_response", "apply_response_fixes"}

\* C21: a response from a request hook, a view hook, the view or an
\* exception hook that has a callable render is handed to the
\* template-response hooks in list order, then rendered, once, after the last
\* hook; a hook returning None raises a ValueError that is translated as an
\* uncaught exception; a response without render goes to the response hooks
\* with neither template-response hook nor render called.
C21_DeferredRendering == []C21_Inv /\ [][C21_Step]_vars

\* The view returned a response with render, both template-response hooks
\* ran in list order, render followed, and the rendered response was
\* returned.
C21_Witness ==
    /\ pc = "done"
    /\ result.kind = "returned"
    /\ response.src = "view" /\ response.rendered
    /\ ArgsOf("process_template_response") = <<2, 1>>
    /\ \E k \in DOMAIN trace :
         /\ k > 1
         /\ trace[k - 1] = Ev("process_template_response", 1, "Response")
         /\ trace[k] = Ev("render", 0, "Response")

-----------------------------------------------------------------------------
(* django.middleware.cache *)

\* The last call recorded for the request being served.
LastEv == IF trace = <<>> THEN Ev("-", 0, "-") ELSE trace[Len(trace)]

C22_Step ==
    (pc = "process_response" /\ response.rendered) =>
        response'.callbacks = response.callbacks

Cacheable(rq, r) ==
    /\ rq.method \in {"GET", "HEAD"}
    /\ rq._cache_update_cache = "True"
    /\ ~r.streaming
    /\ r.status = 200

C26_Inv == response.callbacks # <<>> => Cacheable(request, response)

C26_Step ==
    /\ (pc \in {"process_response", "render", "render_late"}
        /\ cache' # cache) => Cacheable(request, response)
    /\ (pc = "process_response" /\ ~Cacheable(request, response)) =>
          /\ cache' = cache
          /\ response' = response

\* C26: process_response writes to the cache, at once or through a
\* post-render callback, only for a GET or HEAD request the fetch phase
\* marked for update and a response that is not streaming and has status
\* 200; in every other case it returns the response as it is and leaves the
\* cache as it is.
C26_OnlyGetOrHead200Cached == []C26_Inv /\ [][C26_Step]_vars

\* A POST request was answered with a cacheable-looking 200 response, which
\* process_response returned as it was, with the cache empty still.
C26_Witness ==
    /\ pc = "done"
    /\ request.method = "POST"
    /\ response.status = 200 /\ ~response.streaming
    /\ response.max_age = <<>>
    /\ LastEv = Ev("process_response", 0, "as_is")
    /\ cache = EmptyCache

C27_Step ==
    /\ (pc \in {"render", "render_late"} /\ cache' # cache) =>
          cache'[request.method] =
              [value |-> Stored(response'),
               timeout |-> response.callbacks[1].timeout]
    /\ pc = "process_response" =>
        LET max_age == response.max_age
            seconds == IF max_age = <<>>
                       THEN settings.CACHE_MIDDLEWARE_SECONDS
                       ELSE max_age[1]
        IN  /\ cache' # cache =>
                 /\ cache'["headers"].timeout = seconds
                 /\ \/ response'.callbacks # response.callbacks
                    \/ cache'[request.method] =
                           [value |-> Stored(response'), timeout |-> seconds]
            /\ response'.callbacks # response.callbacks =>
                 response'.callbacks =
                     Append(response.callbacks,
                            [key |-> request.method, timeout |-> seconds])
            /\ max_age = <<0>> =>
                 cache' = cache /\ response' = response
            /\ seconds = 0 =>
                 /\ cache' = cache
                 /\ response'.callbacks = response.callbacks

\* C27: what process_response stores, it stores for the max-age of the
\* response's Cache-Control header, or for CACHE_MIDDLEWARE_SECONDS when the
\* header has no max-age; a response with max-age 0 is returned unpatched
\* and unstored, and nothing is stored for a timeout of 0 from the setting.
C27_StoredForMaxAgeOrSetting == [][C27_Step]_vars

\* With CACHE_MIDDLEWARE_SECONDS = 600 a response with max-age=60 was
\* stored for 60 seconds.
C27_Witness ==
    /\ pc = "done"
    /\ settings.CACHE_MIDDLEWARE_SECONDS = 600
    /\ response.max_age = <<60>>
    /\ LastEv = Ev("process_response", 0, "stored")
    /\ request.method \in DOMAIN cache
    /\ cache[request.method].timeout = 60
    /\ cache[request.method].value = response

\* The entry process_request answers from: "None" on a miss.
HitKey(rq, c) ==
    IF rq.method \notin {"GET", "HEAD"} \/ "headers" \notin DOMAIN c
    THEN "None"
    ELSE IF "GET" \in DOMAIN c THEN "GET"
    ELSE IF rq.method = "HEAD" /\ "HEAD" \in DOMAIN c THEN "HEAD"
    ELSE "None"

C28_Inv ==
    \A k \in DOMAIN trace :
        (trace[k].ev = "process_request" /\ trace[k].what = "Response") =>
            /\ ~Called("view")
            /\ request._cache_update_cache = "False"

C28_Step ==
    /\ (pc = "process_request" /\ LastEv'.ev = "process_request") =>
          LET key == HitKey(request, cache)
          IN  IF key = "None"
              THEN /\ pc' = "view"
                   /\ LastEv'.what = "None"
                   /\ request.method \in {"GET", "HEAD"} =>
                        request'._cache_update_cache = "True"
              ELSE /\ pc' = "process_response"
                   /\ response' = cache[key].value
                   /\ request'._cache_update_cache = "False"
    /\ (pc = "process_response"
        /\ request._cache_update_cache = "False") =>
          /\ cache' = cache
          /\ response' = response

\* C28: on a hit for a GET or HEAD request process_request returns the
\* cached response, so that the view is not called, and marks the request
\* _cache_update_cache = False, so that process_response leaves the cache
\* alone; on a miss it returns None and marks the request for update; a
\* HEAD request is answered from the GET entry when there is one and from
\* the HEAD entry otherwise.
C28_HitShortCircuits == []C28_Inv /\ [][C28_Step]_vars

\* A HEAD request was answered from the HEAD entry, there being no GET
\* entry, and went through process_response with the cache unchanged.
C28_Witness ==
    /\ pc = "done"
    /\ request.method = "HEAD"
    /\ trace = <<Ev("process_request", "HEAD", "Response"),
                 Ev("process_response", 0, "as_is")>>
    /\ "GET" \notin DOMAIN cache
    /\ response = cache["HEAD"].value

-----------------------------------------------------------------------------
(* django.middleware.csrf *)

\* A request process_view checks: unsafe method, view not exempt, neither
\* csrf_processing_done nor _dont_enforce_csrf_checks set.
Protected(rq) ==
    /\ rq.method \notin {"GET", "HEAD", "OPTIONS", "TRACE"}
    /\ rq.resolver_match # "csrf_exempt"
    /\ ~rq.csrf_processing_done
    /\ ~rq._dont_enforce_csrf_checks

\* The token of the request: the csrfmiddlewaretoken field, or the
\* X-CSRFToken header when there is none to be had.
SentWith(rq) ==
    IF rq.method = "POST" /\ rq.readable /\ rq.POST # <<>> THEN rq.POST
    ELSE rq.HTTP_X_CSRFTOKEN

C23_Step ==
    (pc \in {"process_view", "csrf_protect"} /\ Protected(request)) =>
        LET sanitized == request'.CSRF_COOKIE[1]
            ok == /\ request.COOKIES # Absent
                  /\ sanitized \in {_sanitize_token(request.COOKIES[1], k) :
                                       k \in NewKeys}
                  /\ SentWith(request) = sanitized
                  /\ request.is_secure =>
                       /\ request.HTTP_REFERER # Absent
                       /\ same_origin(request.HTTP_REFERER[1], good_referer)
        IN  IF ok
            THEN /\ LastEv' = Ev(pc, 0, "-")
                 /\ pc' \in {"csrf_protect", "view"}
                 /\ response' = response
            ELSE /\ pc' = "process_response"
                 /\ response' = CsrfResponse(403)

\* C23: process_view lets a request with an unsafe method, a view that is
\* not csrf_exempt and neither csrf_processing_done nor
\* _dont_enforce_csrf_checks pass exactly when it has a CSRF cookie, the
\* token it sends (the csrfmiddlewaretoken field, or the X-CSRFToken header
\* when that is empty) equals the sanitized cookie, and, over https, its
\* Referer is present and of the same origin as https://<host>/; any other
\* such request gets the failure view's response.
C23_AcceptsOnlyMatchingToken == [][C23_Step]_vars

\* A PUT request over https with a good Referer, the cookie "a-" and the
\* header "a" was let through to the view.
C23_Witness ==
    /\ pc = "view"
    /\ request.method = "PUT"
    /\ request.is_secure
    /\ request.COOKIES = Some(<<"a", "-">>)
    /\ request.HTTP_X_CSRFTOKEN = <<"a">>
    /\ request.resolver_match = "plain"
    /\ ~request._dont_enforce_csrf_checks
    /\ LastEv = Ev("process_view", 0, "-")

C24_Inv ==
    /\ Called("get_token") => request.CSRF_COOKIE_USED
    /\ pc = "done" =>
         /\ (Called("get_token") /\ request.CSRF_COOKIE # Absent) =>
              (response.cookie # Absent /\ response.vary_cookie)
         /\ TokenCalls = 0 =>
              (response.cookie = Absent /\ ~response.vary_cookie)

C24_Step ==
    (/\ pc \in {"csrf_protect_response", "process_response"}
     /\ LastEv'.ev = pc
     /\ request.CSRF_COOKIE_USED
     /\ request.CSRF_COOKIE # Absent
     /\ response.cookie = Absent) =>
        /\ response'.cookie = request.CSRF_COOKIE
        /\ response'.vary_cookie

LastRotated ==
    LET s == SelectSeq(trace, LAMBDA e : e.ev = "rotate_token")
    IN  IF s = <<>> THEN Absent ELSE s[Len(s)].what

\* C25: once rotate_token has been called for a request, before or after
\* process_view, the CSRF cookie process_response sets carries the key
\* rotate_token generated.
C25_RotatedTokenIsSet ==
    (pc = "done" /\ Called("rotate_token") /\ response.cookie # Absent) =>
        response.cookie = LastRotated

-----------------------------------------------------------------------------
(* django.middleware.http *)

\* The day a header names, 0 when it is absent or names none.
DayOf(header) ==
    IF header = Some("Thu, 01 Jan 2015") THEN 1
    ELSE IF header = Some("Fri, 02 Jan 2015") THEN 2
    ELSE 0

\* C29: process_response makes the status 304 exactly when the status it
\* found was 2xx with an ETag the request's If-None-Match equals, or 200
\* with a Last-Modified that parses and is no later than an
\* If-Modified-Since that parses, and leaves the status alone otherwise; it
\* sets Date in every case, and Content-Length, to the length of the
\* content, exactly on a response that is not streaming and had none.
C29_ConditionalGet ==
    pc = "done" =>
        LET o == trace[1]
            a == /\ o.status_code \in 200..299
                 /\ o.ETag # Absent
                 /\ request.HTTP_IF_NONE_MATCH = o.ETag
            b == /\ o.status_code = 200
                 /\ DayOf(o.LastModified) # 0
                 /\ DayOf(request.HTTP_IF_MODIFIED_SINCE) # 0
                 /\ DayOf(request.HTTP_IF_MODIFIED_SINCE)
                        >= DayOf(o.LastModified)
        IN  /\ response.status_code = IF a \/ b THEN 304 ELSE o.status_code
            /\ response.Date = Some("now")
            /\ response.ContentLength =
                   IF ~o.streaming /\ o.ContentLength = Absent
                   THEN Some(IF o.content = <<>> THEN "0" ELSE "4")
                   ELSE o.ContentLength
            /\ response.ETag = o.ETag
            /\ response.LastModified = o.LastModified

\* A 204 response with the ETag the request named became a 304 response,
\* dated and with a Content-Length of 0.
C29_Witness ==
    /\ pc = "done"
    /\ trace[1].status_code = 204
    /\ trace[1].ETag = Some("x")
    /\ request.HTTP_IF_NONE_MATCH = Some("x")
    /\ trace[1].ContentLength = Absent
    /\ ~trace[1].streaming
    /\ response.status_code = 304
    /\ response.ContentLength = Some("0")
    /\ response.Date = Some("now")

-----------------------------------------------------------------------------
(* django.conf *)

\* A call recorded in trace that configured the settings: a configure that
\* returned, or a lazy setup that loaded the settings module.
Configures(e) == e.ev \in {"configure", "_setup"} /\ e.what = "None"

C30_Inv ==
    /\ (settings._wrapped # empty) <=>
          \E k \in DOMAIN trace : Configures(trace[k])
    /\ Cardinality({k \in DOMAIN trace : Configures(trace[k])}) <= 1
    /\ \A k \in DOMAIN trace :
          (trace[k].ev = "configure"
           /\ \E j \in 1..(k - 1) : Configures(trace[j])) =>
              trace[k].what = "RuntimeError"

C30_Step ==
    /\ (trace' # trace /\ LastEv'.ev = "configure"
        /\ settings._wrapped # empty) =>
          /\ LastEv'.what = "RuntimeError"
          /\ settings' = settings
    /\ (trace' # trace /\ LastEv'.ev = "__getattr__"
        /\ settings._wrapped = empty
        /\ environ.DJANGO_SETTINGS_MODULE \in {"None", ""}) =>
          /\ LastEv'.what = "ImproperlyConfigured"
          /\ settings' = settings

\* C30: configure raises RuntimeError and leaves _wrapped as it is whenever
\* an earlier configure returned or an earlier attribute read loaded the
\* settings module; _wrapped is set, and `configured` True, exactly when one
\* of the two has happened; an attribute read without DJANGO_SETTINGS_MODULE
\* raises and leaves the settings unconfigured.
C30_ConfigureOnlyBeforeUse == []C30_Inv /\ [][C30_Step]_vars

\* An attribute read loaded mysite.settings, and the configure call that
\* followed raised RuntimeError and left the loaded settings in place.
C30_Witness ==
    /\ Len(trace) = 3
    /\ trace[1].ev = "_setup" /\ trace[1].what = "None"
    /\ trace[2].ev = "__getattr__"
    /\ trace[3].ev = "configure" /\ trace[3].what = "RuntimeError"
    /\ settings._wrapped =
          [class |-> "Settings", SETTINGS_MODULE |-> "mysite.settings"]

-----------------------------------------------------------------------------
(* The resolver of a request with a urlconf attribute *)

\* C31: in a request that carries a urlconf attribute, the resolver that
\* resolves the route and the resolver whose resolve_error_handler failure
\* translation calls are built over that urlconf, also when the failure was
\* raised by a request hook.
C31_OverrideUsedForEveryLookup ==
    (/\ request.urlconf # "absent"
     /\ \E k \in DOMAIN trace :
           trace[k].ev \in {"resolve", "resolve_error_handler"}) =>
        resolver = request.urlconf

-----------------------------------------------------------------------------
(* Uncaught exceptions *)

\* C32: handle_uncaught_exception logs every exception handed to it with
\* logger.error before it does anything else, whatever the settings, also
\* under DEBUG_PROPAGATE_EXCEPTIONS when it re-raises the exception.
C32_UncaughtLoggedInAllModes ==
    \A k \in DOMAIN trace :
        trace[k].ev = "handle_uncaught_exception" =>
            /\ k < Len(trace)
            /\ trace[k + 1] = Ev("logger.error", 500, "-")

-----------------------------------------------------------------------------
(* A failing error handler *)

\* The event at position k of tr is the failure of the 404, 403 or 400
\* error handler, or of its lookup by resolve_error_handler.
ErrorHandlerFailed(tr, k) ==
    /\ tr[k].ev \in {"error_handler", "resolve_error_handler"}
    /\ tr[k].arg \in {400, 403, 404}
    /\ tr[k].what \notin {"Response", "Handler"}

\* The events a get_exception_response call of this step added to the trace
\* that are failures of the error handler or of its lookup.
C33_FailedNow ==
    {k \in DOMAIN trace' : k > Len(trace) /\ ErrorHandlerFailed(trace', k)}

\* Every failure of an error handler is followed by got_request_exception
\* and handle_uncaught_exception with the new exception, and every call of
\* handle_uncaught_exception comes right after a got_request_exception.
C33_SignalThenUncaught ==
    \A k \in DOMAIN trace :
        /\ ErrorHandlerFailed(trace, k) =>
              /\ k + 2 <= Len(trace)
              /\ trace[k + 1] = Ev("got_request_exception", 0, "-")
              /\ trace[k + 2] =
                     Ev("handle_uncaught_exception", 0, trace[k].what)
        /\ trace[k].ev = "handle_uncaught_exception" =>
              /\ k > 1
              /\ trace[k - 1] = Ev("got_request_exception", 0, "-")

\* C33 as stated: when the 404, 403 or 400 error handler (or its lookup)
\* raises, get_exception_response answers with the 500 translation: a
\* response of status 500 goes on to the response hooks.
C33_FailingHandlerGives500 ==
    [][(pc = "except" /\ C33_FailedNow # {}) =>
           /\ pc' = ResponsePhase
           /\ response' # None
           /\ response'.status = 500]_vars

\* The outcome of a get_exception_response call whose error handler (or its
\* lookup) raised: that of handle_uncaught_exception for the new exception.
C33_Step ==
    (pc = "except" /\ C33_FailedNow # {}) =>
        \A k \in C33_FailedNow :
            IF settings.DEBUG_PROPAGATE_EXCEPTIONS
                  \/ (~settings.DEBUG /\ resolver = "None")
            THEN /\ pc' = "done"
                 /\ result' = [kind |-> "raised", exc |-> trace'[k].what]
                 /\ response' = response
            ELSE IF settings.DEBUG
            THEN /\ pc' = ResponsePhase
                 /\ response' = Technical("technical_500_response", 500)
            ELSE \/ /\ pc' = ResponsePhase
                    /\ response' \in HandlerReturns(500)
                 \/ /\ pc' = "done"
                    /\ result'.kind = "raised"
                    /\ LastEv'.ev = "error_handler"
                    /\ LastEv'.arg = 500

\* C33 (amended): when the 404, 403 or 400 error handler (or its lookup)
\* raises, got_request_exception is sent and handle_uncaught_exception is
\* called with the new exception; a response that comes back is the 500
\* translation (debug page or 500 handler, status 500), and none comes back
\* when handle_uncaught_exception re-raises; every handle_uncaught_exception
\* call is immediately preceded by a got_request_exception send.
C33_FailingHandlerIsUncaught ==
    []C33_SignalThenUncaught /\ [][C33_Step]_vars

\* The 404 handler raised and the 500 handler's response went on to the
\* response hooks.
C33_Witness ==
    /\ \E k \in DOMAIN trace :
          /\ trace[k] = Ev("error_handler", 404, "Exception")
          /\ k + 2 <= Len(trace)
          /\ trace[k + 2] = Ev("handle_uncaught_exception", 0, "Exception")
    /\ LastEv = Ev("error_handler", 500, "Response")
    /\ response # None
    /\ response.status = 500

-----------------------------------------------------------------------------
(* Responses of failure translation are not rendered *)

\* r was produced by failure translation: by an error handler or by one of
\* the debug pages.
C34_Translated(r) ==
    /\ r # None
    /\ r.src \in {"error_handler"} \cup TechnicalPages

\* No template-response hook and no render() call happens in a step that
\* starts or ends with a response of failure translation.
C34_Step ==
    (C34_Translated(response) \/ C34_Translated(response')) =>
        /\ pc \notin {"process_template_response", "render"}
        /\ (Len(trace') > Len(trace) =>
               \A k \in (Len(trace) + 1)..Len(trace') :
                   trace'[k].ev \notin {"process_template_response",
                                        "render"})

\* C34: a response produced by failure translation (an error handler for
\* 404, 403, 400 or 500, or a debug page) is never given to a
\* template-response hook and never rendered: with a render method it reaches
\* the response hooks unrendered.
C34_TranslatedNeverRendered ==
    /\ [](C34_Translated(response) =>
             /\ ~response.rendered
             /\ pc \notin {"process_template_response", "render"})
    /\ [][C34_Step]_vars

\* An error handler's response with a render method has been through a
\* response hook, unrendered.
C34_Witness ==
    /\ response # None
    /\ response.src = "error_handler"
    /\ response.render
    /\ ~response.rendered
    /\ response.seen # <<>>

-----------------------------------------------------------------------------
(* Cookies set for a request without cookies *)

\* The response sets a cookie and varies on Cookie in answer to a request
\* that carries no cookie.
C35_FirstCookie ==
    /\ ~request.COOKIES
    /\ response.cookies
    /\ response.vary_cookie

C35_Step ==
    /\ (pc = "process_response" /\ C35_FirstCookie) =>
          /\ cache' = cache
          /\ response' = response
    /\ (pc \in {"process_response", "render", "render_late"}
        /\ cache' # cache) => ~C35_FirstCookie

\* C35: when request.COOKIES is empty, response.cookies is not and the Vary
\* header names Cookie, UpdateCacheMiddleware.process_response returns the
\* response as it is: no cache write, no post-render callback, no patched
\* header; and no later step writes such a response to the cache.
C35_FirstCookieNotStored ==
    /\ [](C35_FirstCookie => response.callbacks = <<>>)
    /\ [][C35_Step]_vars

\* A GET request without cookies, marked for update, was answered with a
\* cacheable 200 response that sets a cookie and varies on Cookie; it was
\* returned as it was and the cache is empty still.
C35_Witness ==
    /\ pc = "done"
    /\ request.method = "GET"
    /\ request._cache_update_cache = "True"
    /\ C35_FirstCookie
    /\ response.status = 200 /\ ~response.streaming
    /\ response.max_age = <<>>
    /\ settings.CACHE_MIDDLEWARE_SECONDS = 600
    /\ LastEv = Ev("process_response", 0, "as_is")
    /\ response.patched = <<>>
    /\ cache = EmptyCache

-----------------------------------------------------------------------------
(* A POST request whose data cannot be read *)

\* C36: when reading request.POST fails with IOError, process_view raises
\* nothing and rejects the request: the failure view's 403 response is
\* returned and the view is not called.
C36_UnreadablePostRejected ==
    [][(/\ pc \in {"process_view", "csrf_protect"}
        /\ Protected(request)
        /\ request.method = "POST"
        /\ ~request.readable) =>
           /\ pc' = "process_response"
           /\ response' = CsrfResponse(403)]_vars

====
